---- MODULE Spec2Model ----
(***************************************************************************)
(* Verification model of the client dashboard (indoha-commits/            *)
(* dashboard-client).                                                      *)
(*                                                                         *)
(* Part 1 models the HTTP wrapper fetchJson (src/src/app/api/http.ts) as  *)
(* a state machine over its await points.                                  *)
(* Part 2 models the CargoDetail screen (src/src/app/components/          *)
(* CargoDetail.tsx): its view state, the mount-time load, the approve /   *)
(* reject handlers and the upload flow, together with the upload helper   *)
(* (src/src/app/auth/storage.ts) and the API functions it calls           *)
(* (src/src/app/api/client.ts).                                            *)
(* Part 3 models the timeline view model of the screen: formatIso,        *)
(* mapEventsToTimeline, buildDerivedTimeline and the timelineEvents memo, *)
(* applied to bounded inputs.                                              *)
(* Part 4 models the helpers getNextRequiredActionInfo, computeSlaHint    *)
(* and insertClientDocument, each applied to bounded inputs.              *)
(* Part 5 models authentication: the access token of supabase.ts,         *)
(* AuthProvider, AuthGateClient and the screens of App.tsx.               *)
(*                                                                         *)
(* Strings are modelled as sequences of tokens; String.prototype.includes *)
(* is modelled as "some token equals the needle".                          *)
(***************************************************************************)
EXTENDS Naturals, Integers, Sequences, FiniteSets, TLC

NULL == "null"

(***************************************************************************)
(* Part 1: fetchJson                                                       *)
(***************************************************************************)

VARIABLES
    VITE_WORKERS_ENABLED,  \* import.meta.env.VITE_WORKERS_ENABLED: "true", "false" or NULL (unset)
    fjPc,            \* position of the current fetchJson call
    fjPath,          \* argument path (token sequence)
    fjMethod,        \* init?.method, NULL when absent
    fjTimeoutMs,     \* local timeoutMs of the call (http.ts:31)
    fjTimerArmed,    \* the setTimeout of http.ts:34 is pending
    fjAborted,       \* controller.signal.aborted
    fjElapsed,       \* ms since the call started
    fjStatus,        \* res.status once the response head arrived, else 0
    fjThrown,        \* the value the returned promise rejected with, else NoError
    fjRedirects,     \* invocations of redirectToLogin during the current call
    fjRequests,      \* invocations of fetch during the current call
    fjCalls          \* calls of fetchJson started so far

\* state of the CargoDetail screen (Part 2) and of the backend it talks to
VARIABLES
    mounted,          \* the CargoDetail instance is mounted
    cancelled,        \* `cancelled` of the load effect (CargoDetail.tsx:336)
    detail,           \* useState: [isNull, documents]
    approvals,        \* useState: set of [id, status]
    approvalsError,   \* useState: message or NULL
    approvalsBusyId,  \* useState: approval id or NULL
    loading,          \* useState
    isUploading,      \* useState: document type or NULL
    uploadDocType,    \* useState: document type or NULL
    uploadError,      \* useState: message or NULL
    load,             \* the mount-time Promise.all of the load effect
    decisions,        \* calls of the approve / reject handlers; pc "sent": request in flight
    flows,            \* upload flows (handleFileChosen calls) started by this screen
    bApprovals,       \* backend: status of each approval
    bDocs,            \* backend: status of each required document
    bRecords,         \* backend: document records registered by POST /client/documents
    bStored,          \* object storage: paths a PUT succeeded for
    lateEffects       \* what the screen's handlers did after it was unmounted:
                      \* "setState" (called a state setter), "request" (sent a request)

\* the timeline view model (Part 3): one application of buildDerivedTimeline or of
\* the timelineEvents memo to a loaded detail and approval list
VARIABLES
    tlDetail,         \* the ClientCargoDetail the functions are applied to
    tlApprovals,      \* the CargoApproval[] they are applied to
    tlPc,             \* "none", "input", "built" (buildDerivedTimeline returned),
                      \* "rendered" (timelineEvents returned)
    tlBranch,         \* which return of timelineEvents was taken
    tlEvents,         \* the `events` array of buildDerivedTimeline before the filter
    tlOut             \* the UiTimelineEvent[] returned

\* the label helpers of the screen (Part 4): one application of
\* getNextRequiredActionInfo and one of computeSlaHint
VARIABLES
    naPc,             \* "none", "input", "returned"
    naRaw,            \* rawAction: the words between the underscores
    naInfo,           \* the NextRequiredActionInfo returned
    slaPc,            \* "none", "input", "returned"
    slaEta,           \* eta: optional timestamp string
    slaNow,           \* Date.now() at the call
    slaHint,          \* the hint returned, optional
    icPc,             \* insertClientDocument: none, called, fetch, resolved, rejected
    icInput,          \* its argument
    icBaseUrl,        \* VITE_API_BASE_URL, <<>> when unset
    icSent,           \* the requests it handed to fetch
    icResult          \* what its promise settled with

\* Part 5: authentication (supabase.ts, AuthContext.tsx, AuthGateClient.tsx, App.tsx)
VARIABLES
    supabaseConfigured, \* VITE_SUPABASE_URL and VITE_SUPABASE_ANON_KEY are both set
    sbSession,          \* the session the supabase client holds: <<>> or <<token>>
    sbListener,         \* the onAuthStateChange subscription: none, subscribed, unsubscribed
    accessToken,        \* supabase.ts:7, <<>> for null
    initPc,             \* initSupabaseAuth: awaiting (getSession pending) or returned
    initOutcome,        \* how initSupabaseAuth went: pending, config, session, nosession, failed
    apMounted,          \* the root is mounted
    apCancelled,        \* AuthContext.tsx:21
    unsubscribe,        \* AuthContext.tsx:22: null or set
    ready,              \* AuthContext.tsx:16
    authenticated,      \* AuthContext.tsx:17
    authError,          \* AuthContext.tsx:18, <<>> for null
    notifications,      \* the onChange calls so far, each with the token left behind
    gatePc,             \* AuthGateClient bootstrap: setSession, getSession, ready, redirected
    hashToken,          \* the access_token of the callback URL, <<>> without one
    currentScreen,      \* App.tsx:14
    selectedCargoId,    \* App.tsx:15, <<>> for null
    apiRequests         \* the API requests started, with the header each carried

viewVars == <<detail, approvals, approvalsError, approvalsBusyId, loading,
              isUploading, uploadDocType, uploadError>>
backendVars == <<bApprovals, bDocs, bRecords, bStored>>
screenVars == <<mounted, cancelled, detail, approvals, approvalsError, approvalsBusyId,
                loading, isUploading, uploadDocType, uploadError, load, decisions, flows,
                bApprovals, bDocs, bRecords, bStored, lateEffects>>
fjVars == <<fjPc, fjPath, fjMethod, fjTimeoutMs, fjTimerArmed, fjAborted, fjElapsed,
            fjStatus, fjThrown, fjRedirects, fjRequests, fjCalls>>
timelineVars == <<tlDetail, tlApprovals, tlPc, tlBranch, tlEvents, tlOut>>
insertVars == <<icPc, icInput, icBaseUrl, icSent, icResult>>
helperVars == <<naPc, naRaw, naInfo, slaPc, slaEta, slaNow, slaHint, insertVars>>
authVars == <<supabaseConfigured, sbSession, sbListener, accessToken, initPc, initOutcome,
              apMounted, apCancelled, unsubscribe, ready, authenticated, authError,
              notifications, gatePc, hashToken, currentScreen, selectedCargoId, apiRequests>>
vars == <<VITE_WORKERS_ENABLED, fjVars, screenVars, timelineVars, helperVars, authVars>>

\* ---- bounds of the model ----
MaxCalls == 2
MaxTicks == 5
\* ---- program constants ----
DefaultTimeoutMs == 20000
TickMs == 5000

Paths == { <<"client", "cargo", "c1", "approvals">>,
           <<"client", "approvals", "a1", "approve">>,
           <<"client", "cargo", "timeout", "approvals">> }
Methods == {NULL, "GET", "POST"}
\* init?.timeoutMs: absent (<<>>) or given
TimeoutOptions == { <<>>, <<10000>> }
Statuses == {200, 401, 403, 404, 500, 504}
Bodies == { <<>>, <<"not", "found">>, <<"upstream", "request", "timeout">> }

EnvValues == {"true", "false", NULL}

\* const workersEnabled = import.meta.env.VITE_WORKERS_ENABLED !== 'false'
\* (http.ts:3, client.ts:5)
workersEnabled == VITE_WORKERS_ENABLED # "false"

\* Response.ok
ResOk(status) == status >= 200 /\ status <= 299

\* String.prototype.includes on token sequences
includes(msg, needle) == \E i \in 1..Len(msg) : msg[i] = needle

\* `${init?.method ?? 'GET'}`
MethodOrGet(method) == IF method = NULL THEN "GET" ELSE method

\* new Error(`${method} ${path} failed: ${status}`)             (http.ts:49)
AuthErrorOf(method, path, status) ==
    [isError |-> TRUE,
     message |-> <<MethodOrGet(method)>> \o path \o <<"failed:", ToString(status)>>]

\* new Error(`${method} ${path} failed: ${status} ${text}`)     (http.ts:54)
HttpErrorOf(method, path, status, text) ==
    [isError |-> TRUE,
     message |-> <<MethodOrGet(method)>> \o path \o <<"failed:", ToString(status)>> \o text]

\* What fetch / res.json() reject with once controller.abort('timeout') ran: the
\* abort reason (the string 'timeout'), or on engines without abort reasons a
\* DOMException named AbortError.
AbortRejections ==
    { [isError |-> FALSE, message |-> <<"timeout">>],
      [isError |-> TRUE,  message |-> <<"The", "operation", "was", "aborted">>] }

NoError == [isError |-> FALSE, message |-> <<>>]
NetworkError == [isError |-> TRUE, message |-> <<"Failed", "to", "fetch">>]
JsonSyntaxError == [isError |-> TRUE, message |-> <<"Unexpected", "end", "of", "JSON", "input">>]
DisabledError == [isError |-> TRUE, message |-> <<"API", "is", "disabled">>]

\* The catch block of fetchJson (http.ts:58-64): the number of redirectToLogin
\* invocations it makes for the thrown value e.
CatchRedirects(e) ==
    LET msg == e.message   \* e instanceof Error ? e.message : String(e)
    IN IF includes(msg, "timeout") \/ includes(msg, "aborted") \/ includes(msg, "AbortError")
       THEN 1 ELSE 0

fjDone == fjPc \in {"resolved", "rejected"}

\* The call leaves through catch + finally with the thrown value e, after `pre`
\* redirectToLogin invocations made in the try block.
FjReject(e, pre) ==
    /\ fjPc' = "rejected"
    /\ fjThrown' = e
    /\ fjRedirects' = fjRedirects + pre + CatchRedirects(e)
    /\ fjTimerArmed' = FALSE          \* finally: clearTimeout(timeout)

\* fetchJson(path, init) up to its first await (http.ts:27-45)
FetchJsonCall ==
    /\ fjPc \in {"idle", "resolved", "rejected"}
    /\ fjCalls < MaxCalls
    /\ \E p \in Paths, m \in Methods, t \in TimeoutOptions :
        /\ fjPath' = p
        /\ fjMethod' = m
        /\ fjTimeoutMs' = IF t = <<>> THEN DefaultTimeoutMs ELSE t[1]
    /\ fjCalls' = fjCalls + 1
    /\ fjElapsed' = 0
    /\ fjStatus' = 0
    /\ fjAborted' = FALSE
    /\ IF ~workersEnabled
       THEN \* http.ts:28 throws before the timer exists
            /\ fjPc' = "rejected"
            /\ fjThrown' = DisabledError
            /\ fjTimerArmed' = FALSE
            /\ fjRequests' = 0
            /\ fjRedirects' = 0
       ELSE /\ fjPc' = "fetching"
            /\ fjThrown' = NoError
            /\ fjTimerArmed' = TRUE
            /\ fjRequests' = 1
            /\ fjRedirects' = 0
    /\ UNCHANGED <<screenVars, helperVars, authVars, timelineVars, VITE_WORKERS_ENABLED>>

\* time passes while the call is pending
Tick ==
    /\ fjPc \in {"fetching", "readingText", "readingJson"}
    /\ fjElapsed < MaxTicks * TickMs
    /\ fjElapsed' = fjElapsed + TickMs
    /\ UNCHANGED <<screenVars, helperVars, authVars, timelineVars, VITE_WORKERS_ENABLED, fjPc, fjPath, fjMethod, fjTimeoutMs,
                   fjTimerArmed,
                   fjAborted, fjStatus, fjThrown, fjRedirects, fjRequests, fjCalls>>

\* a wrapper that sends the request again after a non-2xx response
FetchRespondsRetry ==
    /\ fjPc = "fetching"
    /\ \E status \in Statuses :
        /\ fjStatus' = status
        /\ IF ResOk(status)
           THEN /\ fjPc' = "readingJson"
                /\ UNCHANGED <<fjThrown, fjRedirects, fjTimerArmed, fjRequests>>
           ELSE \* a second attempt after a failed one
                /\ fjPc' = "fetching"
                /\ fjRequests' = fjRequests + 1
                /\ UNCHANGED <<fjThrown, fjRedirects, fjTimerArmed>>
    /\ UNCHANGED <<screenVars, helperVars, authVars, timelineVars, VITE_WORKERS_ENABLED, fjPath, fjMethod, fjTimeoutMs,
                   fjAborted, fjElapsed, fjCalls>>

\* the response head arrives: http.ts:47-57 up to the next await
FetchResponds ==
    /\ fjPc = "fetching"
    /\ \E status \in Statuses :
        /\ fjStatus' = status
        /\ IF status = 401 \/ status = 403
           THEN FjReject(AuthErrorOf(fjMethod, fjPath, status), 1)
           ELSE IF ~ResOk(status)
           THEN /\ fjPc' = "readingText"
                /\ UNCHANGED <<fjThrown, fjRedirects, fjTimerArmed>>
           ELSE /\ fjPc' = "readingJson"
                /\ UNCHANGED <<fjThrown, fjRedirects, fjTimerArmed>>
    /\ UNCHANGED <<screenVars, helperVars, authVars, timelineVars, VITE_WORKERS_ENABLED, fjPath, fjMethod, fjTimeoutMs,
                   fjAborted, fjElapsed,
                   fjRequests, fjCalls>>

\* fetch rejects with a network error (http.ts:37 -> catch)
FetchFails ==
    /\ fjPc = "fetching"
    /\ FjReject(NetworkError, 0)
    /\ UNCHANGED <<screenVars, helperVars, authVars, timelineVars, VITE_WORKERS_ENABLED, fjPath, fjMethod, fjTimeoutMs,
                   fjAborted, fjElapsed,
                   fjStatus, fjRequests, fjCalls>>

\* res.text() settles for a non-2xx response (http.ts:53-54); a rejected read
\* becomes '' through .catch(() => '')
TextSettles ==
    /\ fjPc = "readingText"
    /\ \E text \in Bodies : FjReject(HttpErrorOf(fjMethod, fjPath, fjStatus, text), 0)
    /\ UNCHANGED <<screenVars, helperVars, authVars, timelineVars, VITE_WORKERS_ENABLED, fjPath, fjMethod, fjTimeoutMs,
                   fjAborted, fjElapsed,
                   fjStatus, fjRequests, fjCalls>>

\* res.json() resolves (http.ts:57)
JsonResolves ==
    /\ fjPc = "readingJson"
    /\ fjPc' = "resolved"
    /\ fjTimerArmed' = FALSE          \* finally: clearTimeout(timeout)
    /\ UNCHANGED <<screenVars, helperVars, authVars, timelineVars, VITE_WORKERS_ENABLED, fjPath, fjMethod, fjTimeoutMs,
                   fjAborted, fjElapsed,
                   fjStatus, fjThrown, fjRedirects, fjRequests, fjCalls>>

\* res.json() rejects on a body that is not JSON (http.ts:57 -> catch)
JsonFails ==
    /\ fjPc = "readingJson"
    /\ FjReject(JsonSyntaxError, 0)
    /\ UNCHANGED <<screenVars, helperVars, authVars, timelineVars, VITE_WORKERS_ENABLED, fjPath, fjMethod, fjTimeoutMs,
                   fjAborted, fjElapsed,
                   fjStatus, fjRequests, fjCalls>>

\* The timer of http.ts:34 fires: controller.abort('timeout'). The pending await
\* rejects with the abort reason and the call runs to its end.
TimerFires ==
    /\ fjTimerArmed
    /\ fjElapsed >= fjTimeoutMs
    /\ fjAborted' = TRUE
    /\ \/ /\ fjPc \in {"fetching", "readingJson"}
          /\ \E e \in AbortRejections : FjReject(e, 0)
       \/ /\ fjPc = "readingText"
          \* res.text() rejects, .catch(() => '') turns it into ''
          /\ FjReject(HttpErrorOf(fjMethod, fjPath, fjStatus, <<>>), 0)
    /\ UNCHANGED <<screenVars, helperVars, authVars, timelineVars, VITE_WORKERS_ENABLED, fjPath, fjMethod, fjTimeoutMs,
                   fjElapsed, fjStatus,
                   fjRequests, fjCalls>>


(***************************************************************************)
(* Part 2: the CargoDetail screen                                          *)
(***************************************************************************)


\* ---- bounds of the model ----
MaxDecisions == 3
MaxFlows == 2

ApprovalIds == {"a1", "a2"}
DocTypes == {"BILL_OF_LADING", "PACKING_LIST"}
Files == {"invoice.pdf"}
Reasons == {"", "wrong totals"}

\* const workersEnabled = import.meta.env.VITE_WORKERS_ENABLED === 'true'
\* (CargoDetail.tsx:322)
detailWorkersEnabled == VITE_WORKERS_ENABLED = "true"

NoDetail == [isNull |-> TRUE, documents |-> {}]

\* mockDocuments (CargoDetail.tsx:82-103), already in UI form
mockDocuments ==
    { [type |-> "BILL_OF_LADING", status |-> "verified"],
      [type |-> "COMMERCIAL_INVOICE", status |-> "uploaded"],
      [type |-> "PACKING_LIST", status |-> "pending"] }

\* mapDocStatus (CargoDetail.tsx:105-109)
mapDocStatus(status) ==
    IF status = "VERIFIED" THEN "verified"
    ELSE IF status = "UPLOADED" THEN "uploaded"
    ELSE "pending"

\* the `documents` memo (CargoDetail.tsx:384-394)
documents ==
    IF detail.isNull THEN mockDocuments
    ELSE { [type |-> d.document_type, status |-> mapDocStatus(d.status)] : d \in detail.documents }

\* what GET /client/cargo/{id} and GET /client/cargo/{id}/approvals answer now
DetailSnapshot ==
    [isNull |-> FALSE,
     documents |-> { [document_type |-> t, status |-> bDocs[t]] : t \in DocTypes }]
ApprovalsSnapshot == { [id |-> a, status |-> bApprovals[a]] : a \in ApprovalIds }

\* a React state setter: updates of an unmounted component are dropped
SetState(current, new) == IF mounted THEN new ELSE current

\* a handler of the screen that runs on after the unmount records what it did
Late(effects) == IF mounted THEN lateEffects ELSE lateEffects \cup effects

FjIdle ==
    /\ fjPc = "idle"
    /\ fjPath = <<>>
    /\ fjMethod = NULL
    /\ fjTimeoutMs = DefaultTimeoutMs
    /\ fjTimerArmed = FALSE
    /\ fjAborted = FALSE
    /\ fjElapsed = 0
    /\ fjStatus = 0
    /\ fjThrown = NoError
    /\ fjRedirects = 0
    /\ fjRequests = 0
    /\ fjCalls = 0

\* The screen right after its first render and its load effect
\* (CargoDetail.tsx:324-364).
ScreenInit ==
    /\ mounted = TRUE
    /\ cancelled = FALSE
    /\ detail = NoDetail
    /\ approvals = {}
    /\ approvalsError = NULL
    /\ approvalsBusyId = NULL
    /\ loading = detailWorkersEnabled                     \* setLoading(true)
    /\ isUploading = NULL
    /\ uploadDocType = NULL
    /\ uploadError = NULL
    /\ load = [pc |-> IF detailWorkersEnabled THEN "pending" ELSE "none",
               detailRes |-> <<>>, approvalsRes |-> <<>>]
    /\ decisions = <<>>
    /\ flows = <<>>
    /\ bApprovals = [a \in ApprovalIds |-> "PENDING"]
    /\ bDocs = [t \in DocTypes |-> "PENDING"]
    /\ bRecords = {}
    /\ bStored = {}
    /\ lateEffects = {}


\* ---- mount-time load (CargoDetail.tsx:335-364) ----

\* GET /client/cargo/{id} of the load answers 2xx (client.ts:148-167)
LoadServeDetail ==
    /\ load.pc = "pending"
    /\ load.detailRes = <<>>
    /\ load' = [load EXCEPT !.detailRes = <<DetailSnapshot>>]
    /\ UNCHANGED <<VITE_WORKERS_ENABLED, helperVars, authVars, timelineVars, fjVars, mounted, cancelled, viewVars, decisions,
                   flows, backendVars, lateEffects>>

\* GET /client/cargo/{id}/approvals of the load answers 2xx (client.ts:187-207)
LoadServeApprovals ==
    /\ load.pc = "pending"
    /\ load.approvalsRes = <<>>
    /\ load' = [load EXCEPT !.approvalsRes = <<ApprovalsSnapshot>>]
    /\ UNCHANGED <<VITE_WORKERS_ENABLED, helperVars, authVars, timelineVars, fjVars, mounted, cancelled, viewVars, decisions,
                   flows, backendVars, lateEffects>>

\* .then + .finally of the load effect (CargoDetail.tsx:344-349, 356-359)
LoadThen ==
    /\ load.pc = "pending"
    /\ load.detailRes # <<>> /\ load.approvalsRes # <<>>
    /\ load' = [load EXCEPT !.pc = "settled"]
    /\ IF cancelled
       THEN UNCHANGED <<detail, approvals, approvalsError, loading, lateEffects>>
       ELSE /\ detail' = SetState(detail, load.detailRes[1])
            /\ approvals' = SetState(approvals, load.approvalsRes[1])
            /\ approvalsError' = SetState(approvalsError, NULL)
            /\ loading' = SetState(loading, FALSE)
            /\ lateEffects' = Late({"setState"})
    /\ UNCHANGED <<VITE_WORKERS_ENABLED, helperVars, authVars, timelineVars, fjVars, mounted, cancelled, approvalsBusyId,
                   isUploading, uploadDocType,
                   uploadError, decisions, flows, backendVars>>

\* one of the two GETs fails: .catch + .finally (CargoDetail.tsx:350-359)
LoadCatch ==
    /\ load.pc = "pending"
    /\ \E msg \in {"getClientCargoDetail failed", "getClientCargoApprovals failed"} :
        /\ (msg = "getClientCargoDetail failed") => load.detailRes = <<>>
        /\ (msg = "getClientCargoApprovals failed") => load.approvalsRes = <<>>
        /\ load' = [load EXCEPT !.pc = "settled"]
        /\ IF cancelled
           THEN UNCHANGED <<detail, approvals, approvalsError, loading, lateEffects>>
           ELSE /\ detail' = SetState(detail, NoDetail)
                /\ approvals' = SetState(approvals, {})
                /\ approvalsError' = SetState(approvalsError, msg)
                /\ loading' = SetState(loading, FALSE)
                /\ lateEffects' = Late({"setState"})
    /\ UNCHANGED <<VITE_WORKERS_ENABLED, helperVars, authVars, timelineVars, fjVars, mounted, cancelled, approvalsBusyId,
                   isUploading, uploadDocType,
                   uploadError, decisions, flows, backendVars>>

\* the user navigates away: the effect cleanup runs (CargoDetail.tsx:361-363)
Unmount ==
    /\ mounted
    /\ mounted' = FALSE
    /\ cancelled' = TRUE
    /\ UNCHANGED <<VITE_WORKERS_ENABLED, helperVars, authVars, timelineVars, fjVars, viewVars, load, decisions, flows,
                   backendVars, lateEffects>>

\* ---- approve / reject (CargoDetail.tsx:406-430, 771-791) ----

\* buttons that are rendered whatever the status of the approval is
DecisionButtonsEnabledAnyStatus(a) ==
    /\ mounted
    /\ \E r \in approvals : r.id = a
    /\ approvalsBusyId # a

\* the Approve and Reject buttons of approval a are rendered and enabled
DecisionButtonsEnabled(a) ==
    /\ mounted
    /\ \E r \in approvals : r.id = a /\ r.status = "PENDING"    \* CargoDetail.tsx:771
    /\ approvalsBusyId # a                                      \* disabled={approvalsBusyId === a.id}

DecisionInFlight(i) == decisions[i].pc = "sent"

\* click on Approve: handleApprovalApprove up to its await (CargoDetail.tsx:406-409)
HandleApprovalApprove ==
    /\ Len(decisions) < MaxDecisions
    /\ \E a \in ApprovalIds :
        /\ DecisionButtonsEnabled(a)
        /\ approvalsBusyId' = a
        /\ decisions' = Append(decisions, [id |-> a, op |-> "approve", pc |-> "sent"])
    /\ UNCHANGED <<VITE_WORKERS_ENABLED, helperVars, authVars, timelineVars, fjVars, mounted, cancelled, detail, approvals,
                   approvalsError, loading,
                   isUploading, uploadDocType, uploadError, load, flows, backendVars,
                   lateEffects>>

\* click on Reject: handleApprovalReject up to its await (CargoDetail.tsx:418-423);
\* an empty or cancelled prompt returns at once (the call is logged as "returned")
HandleApprovalReject ==
    /\ Len(decisions) < MaxDecisions
    /\ \E a \in ApprovalIds, reason \in Reasons :
        /\ DecisionButtonsEnabled(a)
        /\ IF reason = ""                                  \* if (!reason) return
           THEN /\ UNCHANGED approvalsBusyId
                /\ decisions' = Append(decisions,
                                       [id |-> a, op |-> "reject", pc |-> "returned"])
           ELSE /\ approvalsBusyId' = a
                /\ decisions' = Append(decisions, [id |-> a, op |-> "reject", pc |-> "sent"])
    /\ UNCHANGED <<VITE_WORKERS_ENABLED, helperVars, authVars, timelineVars, fjVars, mounted, cancelled, detail, approvals,
                   approvalsError, loading,
                   isUploading, uploadDocType, uploadError, load, flows, backendVars,
                   lateEffects>>

\* the status the backend moves a PENDING approval to
DecidedStatus(op) == IF op = "approve" THEN "APPROVED" ELSE "REJECTED"

\* The POST answers 2xx with the decided approval: the rest of the try block and
\* the finally (CargoDetail.tsx:410, 414 / 424, 428).
DecisionResolves ==
    \E i \in 1..Len(decisions) :
        LET d == decisions[i] IN
        /\ d.pc = "sent"
        /\ bApprovals[d.id] = "PENDING"       \* the backend validates the transition
        /\ bApprovals' = [bApprovals EXCEPT ![d.id] = DecidedStatus(d.op)]
        /\ decisions' = [decisions EXCEPT ![i].pc = "resolved"]
        /\ approvals' = SetState(approvals,
               { IF r.id = d.id THEN [id |-> d.id, status |-> DecidedStatus(d.op)] ELSE r
                   : r \in approvals })
        /\ approvalsBusyId' = SetState(approvalsBusyId, NULL)
        /\ lateEffects' = Late({"setState"})
        /\ UNCHANGED <<VITE_WORKERS_ENABLED, helperVars, authVars, timelineVars, fjVars, mounted, cancelled, detail,
                       approvalsError, loading, isUploading,
                       uploadDocType, uploadError, load, flows, bDocs, bRecords, bStored>>

\* The POST fails (non-2xx or network): catch and finally
\* (CargoDetail.tsx:411-415 / 425-429).
DecisionRejects ==
    \E i \in 1..Len(decisions) :
        LET d == decisions[i] IN
        /\ d.pc = "sent"
        /\ decisions' = [decisions EXCEPT ![i].pc = "rejected"]
        /\ approvalsError' = SetState(approvalsError,
               IF d.op = "approve" THEN "approveClientCargoApproval failed"
                                   ELSE "rejectClientCargoApproval failed")
        /\ approvalsBusyId' = SetState(approvalsBusyId, NULL)
        /\ lateEffects' = Late({"setState"})
        /\ UNCHANGED <<VITE_WORKERS_ENABLED, helperVars, authVars, timelineVars, fjVars, mounted, cancelled, detail, approvals,
                       loading, isUploading,
                       uploadDocType, uploadError, load, flows, backendVars>>

\* ---- upload (CargoDetail.tsx:432-473, 478-539; storage.ts; client.ts) ----

PutStatuses == {200, 500}
FullLog == <<"url_ok", "put_sent", "put_ok", "insert_sent", "insert_ok", "refresh_sent",
             "refresh_ok">>

\* the storage path the backend issues for the i-th upload-url request (one object
\* per request) and the signed upload URL for a path
UploadPathOf(i) == <<"uploads", i>>
SignedUrlOf(path) == <<"signed", path>>

FlowInFlight(i) == flows[i].pc \in {"url", "put", "insert", "refresh"}

\* click on a document's Upload button: handleUploadClick (CargoDetail.tsx:432-439,
\* 664-678)
HandleUploadClick ==
    /\ mounted
    /\ detailWorkersEnabled
    /\ \E d \in documents :
        /\ d.status = "pending"
        /\ isUploading # d.type                  \* disabled={... || isUploading === doc.type}
        /\ uploadError' = NULL
        /\ uploadDocType' = d.type
    /\ UNCHANGED <<VITE_WORKERS_ENABLED, helperVars, authVars, timelineVars, fjVars, mounted, cancelled, detail, approvals,
                   approvalsError, approvalsBusyId, loading, isUploading, load, decisions,
                   flows, backendVars, lateEffects>>

\* click on the modal's Close button (CargoDetail.tsx:497-505)
CloseModal ==
    /\ mounted
    /\ uploadDocType # NULL
    /\ isUploading # uploadDocType               \* disabled={isUploading === uploadDocType}
    /\ uploadDocType' = NULL
    /\ UNCHANGED <<VITE_WORKERS_ENABLED, helperVars, authVars, timelineVars, fjVars, mounted, cancelled, detail, approvals,
                   approvalsError, approvalsBusyId, loading, isUploading, uploadError, load,
                   decisions, flows, backendVars, lateEffects>>

\* handleFileChosen(file) up to its first await: the POST of
\* createClientDocumentUploadUrl is sent (CargoDetail.tsx:441-452, storage.ts:10-14,
\* client.ts:251-267)
HandleFileChosen(file) ==
    /\ uploadDocType # NULL                      \* if (!uploadDocType) return
    /\ Len(flows) < MaxFlows
    /\ isUploading' = uploadDocType
    /\ uploadError' = NULL
    /\ flows' = Append(flows,
           [docType |-> uploadDocType, file |-> file, pc |-> "url",
            issued |-> <<>>, putUrl |-> <<>>, putStatus |-> 0,
            helper |-> "pending", helperPath |-> <<>>, driveUrl |-> <<>>,
            detailRes |-> <<>>, approvalsRes |-> <<>>,
            log |-> <<>>, error |-> NULL])
    /\ UNCHANGED <<VITE_WORKERS_ENABLED, helperVars, authVars, timelineVars, fjVars, mounted, cancelled, detail, approvals,
                   approvalsError, approvalsBusyId, loading, uploadDocType, load, decisions,
                   backendVars, lateEffects>>

\* a file is picked through the "Choose file" button and the hidden input
\* (CargoDetail.tsx:478-488, 528-535)
ChooseFile ==
    /\ mounted
    /\ uploadDocType # NULL                      \* the modal is rendered
    /\ isUploading # uploadDocType               \* disabled={isUploading === uploadDocType}
    /\ \E file \in Files : HandleFileChosen(file)

\* a file is dropped on the modal's drop zone (CargoDetail.tsx:515-524)
DropFile ==
    /\ mounted
    /\ uploadDocType # NULL                      \* the modal is rendered
    /\ \E file \in Files : HandleFileChosen(file)

\* a catch block without the finally: the busy flag is left set
HandleFileChosenCatchKeepingBusy(msg) ==
    /\ uploadError' = SetState(uploadError, msg)
    /\ UNCHANGED isUploading
    /\ UNCHANGED uploadDocType
    /\ lateEffects' = Late({"setState"})

\* a catch block that also closes the modal
HandleFileChosenCatchClosingModal(msg) ==
    /\ uploadError' = SetState(uploadError, msg)
    /\ isUploading' = SetState(isUploading, NULL)
    /\ uploadDocType' = SetState(uploadDocType, NULL)
    /\ lateEffects' = Late({"setState"})

\* catch + finally of handleFileChosen (CargoDetail.tsx:468-472): the view state
\* after a step of the flow threw msg
HandleFileChosenCatch(msg) ==
    /\ uploadError' = SetState(uploadError, msg)
    /\ isUploading' = SetState(isUploading, NULL)
    /\ UNCHANGED uploadDocType
    /\ lateEffects' = Late({"setState"})

\* POST /client/cargo/{id}/upload-url answers 2xx with {path, signed_url}; the
\* helper sends the PUT to upload.signed_url (client.ts:269-274, storage.ts:16-22)
UploadUrlResolves ==
    \E i \in 1..Len(flows) :
        LET p == UploadPathOf(i) IN
        /\ flows[i].pc = "url"
        /\ flows' = [flows EXCEPT ![i].pc = "put",
                                  ![i].issued = <<[path |-> p, signed_url |-> SignedUrlOf(p)]>>,
                                  ![i].putUrl = <<SignedUrlOf(p)>>,
                                  ![i].log = @ \o <<"url_ok", "put_sent">>]
        /\ UNCHANGED <<VITE_WORKERS_ENABLED, helperVars, authVars, timelineVars, fjVars, mounted, cancelled, viewVars, load,
                       decisions, backendVars, lateEffects>>

\* the upload-url request fails: createClientDocumentUploadUrl throws, no PUT is
\* sent (client.ts:269-272)
UploadUrlRejects ==
    \E i \in 1..Len(flows) :
        /\ flows[i].pc = "url"
        /\ flows' = [flows EXCEPT ![i].pc = "failed",
                                  ![i].helper = "rejected",
                                  ![i].error = "createClientDocumentUploadUrl failed"]
        /\ HandleFileChosenCatch("createClientDocumentUploadUrl failed")
        /\ UNCHANGED <<VITE_WORKERS_ENABLED, helperVars, authVars, timelineVars, fjVars, mounted, cancelled, detail, approvals,
                       approvalsError, approvalsBusyId, loading, load, decisions,
                       backendVars>>

\* a helper that does not look at the PUT response
PutSucceededUnchecked(status) == TRUE

\* `if (!res.ok) throw` of the helper (storage.ts:24-27), as the test it makes
PutSucceeded(status) == ResOk(status)

\* The PUT settles (storage.ts:16-29). On success the helper returns
\* {path: upload.path} and handleFileChosen sends insertClientDocument with
\* driveUrl: path (CargoDetail.tsx:455-459, client.ts:30-46).
PutSettles ==
    \E i \in 1..Len(flows), status \in PutStatuses \cup {0} :
        LET f == flows[i] IN
        /\ f.pc = "put"
        /\ IF status = 0
           THEN \* fetch rejects: network error
                /\ flows' = [flows EXCEPT ![i].pc = "failed",
                                          ![i].helper = "rejected",
                                          ![i].error = "Failed to fetch"]
                /\ HandleFileChosenCatch("Failed to fetch")
                /\ UNCHANGED bStored
           ELSE IF PutSucceeded(status)
           THEN /\ flows' = [flows EXCEPT
                                ![i].pc = "insert",
                                ![i].putStatus = status,
                                ![i].helper = "resolved",
                                ![i].helperPath = <<f.issued[1].path>>,
                                ![i].driveUrl = <<f.issued[1].path>>,
                                ![i].log = @ \o <<IF ResOk(status) THEN "put_ok" ELSE "put_failed",
                                                  "insert_sent">>]
                /\ bStored' = IF ResOk(status) THEN bStored \cup {f.issued[1].path} ELSE bStored
                /\ lateEffects' = Late({"request"})
                /\ UNCHANGED <<isUploading, uploadDocType, uploadError>>
           ELSE /\ flows' = [flows EXCEPT ![i].pc = "failed",
                                          ![i].putStatus = status,
                                          ![i].helper = "rejected",
                                          ![i].error = "Signed upload failed"]
                /\ HandleFileChosenCatch("Signed upload failed")
                /\ UNCHANGED bStored
        /\ UNCHANGED <<VITE_WORKERS_ENABLED, helperVars, authVars, timelineVars, fjVars, mounted, cancelled, detail, approvals,
                       approvalsError, approvalsBusyId, loading, load, decisions,
                       bApprovals, bDocs, bRecords>>

\* a registration that carries the signed upload URL instead of the storage path
RegisteredBySignedUrl(i) ==
    [flow |-> i, document_type |-> flows[i].docType, drive_url |-> flows[i].putUrl[1]]

\* The record POST /client/documents registers: the body insertClientDocument
\* sends (client.ts:41-45) for the arguments of CargoDetail.tsx:455-459.
RegisteredBy(i) ==
    [flow |-> i, document_type |-> flows[i].docType, drive_url |-> flows[i].driveUrl[1]]

\* POST /client/documents settles (client.ts:48-57); on success handleFileChosen
\* starts the refresh Promise.all (CargoDetail.tsx:461-464)
InsertSettles ==
    \E i \in 1..Len(flows), outcome \in {"id", "missing id", "failed"} :
        LET f == flows[i] IN
        /\ f.pc = "insert"
        /\ IF outcome = "id"
           THEN /\ flows' = [flows EXCEPT ![i].pc = "refresh",
                                          ![i].log = @ \o <<"insert_ok", "refresh_sent">>]
                /\ bRecords' = bRecords \cup {RegisteredBy(i)}
                /\ bDocs' = [t \in DocTypes |-> IF t = f.docType THEN "UPLOADED" ELSE bDocs[t]]
                /\ lateEffects' = Late({"request"})
                /\ UNCHANGED <<isUploading, uploadDocType, uploadError>>
           ELSE IF outcome = "missing id"
           THEN \* 2xx without an id: the record exists, the client throws
                /\ flows' = [flows EXCEPT ![i].pc = "failed",
                                          ![i].error = "insertClientDocument: missing id"]
                /\ bRecords' = bRecords \cup {RegisteredBy(i)}
                /\ bDocs' = [t \in DocTypes |-> IF t = f.docType THEN "UPLOADED" ELSE bDocs[t]]
                /\ HandleFileChosenCatch("insertClientDocument: missing id")
           ELSE /\ flows' = [flows EXCEPT ![i].pc = "failed",
                                          ![i].error = "insertClientDocument failed"]
                /\ UNCHANGED <<bRecords, bDocs>>
                /\ HandleFileChosenCatch("insertClientDocument failed")
        /\ UNCHANGED <<VITE_WORKERS_ENABLED, helperVars, authVars, timelineVars, fjVars, mounted, cancelled, detail, approvals,
                       approvalsError, approvalsBusyId, loading, load, decisions,
                       bApprovals, bStored>>

\* GET /client/cargo/{id} of a flow's refresh answers 2xx
RefreshServeDetail ==
    \E i \in 1..Len(flows) :
        /\ flows[i].pc = "refresh"
        /\ flows[i].detailRes = <<>>
        /\ flows' = [flows EXCEPT ![i].detailRes = <<DetailSnapshot>>]
        /\ UNCHANGED <<VITE_WORKERS_ENABLED, helperVars, authVars, timelineVars, fjVars, mounted, cancelled, viewVars, load,
                       decisions, backendVars, lateEffects>>

\* GET /client/cargo/{id}/approvals of a flow's refresh answers 2xx
RefreshServeApprovals ==
    \E i \in 1..Len(flows) :
        /\ flows[i].pc = "refresh"
        /\ flows[i].approvalsRes = <<>>
        /\ flows' = [flows EXCEPT ![i].approvalsRes = <<ApprovalsSnapshot>>]
        /\ UNCHANGED <<VITE_WORKERS_ENABLED, helperVars, authVars, timelineVars, fjVars, mounted, cancelled, viewVars, load,
                       decisions, backendVars, lateEffects>>

\* the refresh Promise.all resolves: the rest of the try block and the finally
\* (CargoDetail.tsx:465-467, 471)
RefreshResolves ==
    \E i \in 1..Len(flows) :
        LET f == flows[i] IN
        /\ f.pc = "refresh"
        /\ f.detailRes # <<>> /\ f.approvalsRes # <<>>
        /\ flows' = [flows EXCEPT ![i].pc = "done", ![i].log = @ \o <<"refresh_ok">>,
                                  ![i].detailRes = <<>>, ![i].approvalsRes = <<>>]
        /\ detail' = SetState(detail, f.detailRes[1])
        /\ approvals' = SetState(approvals, f.approvalsRes[1])
        /\ uploadDocType' = SetState(uploadDocType, NULL)
        /\ isUploading' = SetState(isUploading, NULL)
        /\ lateEffects' = Late({"setState"})
        /\ UNCHANGED <<VITE_WORKERS_ENABLED, helperVars, authVars, timelineVars, fjVars, mounted, cancelled, approvalsError,
                       approvalsBusyId, loading, uploadError, load, decisions, backendVars>>

\* one of the two refresh GETs fails: catch and finally
RefreshRejects ==
    \E i \in 1..Len(flows),
       msg \in {"getClientCargoDetail failed", "getClientCargoApprovals failed"} :
        LET f == flows[i] IN
        /\ f.pc = "refresh"
        /\ (msg = "getClientCargoDetail failed") => f.detailRes = <<>>
        /\ (msg = "getClientCargoApprovals failed") => f.approvalsRes = <<>>
        /\ flows' = [flows EXCEPT ![i].pc = "failed", ![i].error = msg,
                                  ![i].detailRes = <<>>, ![i].approvalsRes = <<>>]
        /\ HandleFileChosenCatch(msg)
        /\ UNCHANGED <<VITE_WORKERS_ENABLED, helperVars, authVars, timelineVars, fjVars, mounted, cancelled, detail, approvals,
                       approvalsError, approvalsBusyId, loading, load, decisions,
                       backendVars>>

(***************************************************************************)
(* Part 3: the timeline view model (CargoDetail.tsx:58-80, 130-248,       *)
(* 396-404)                                                                *)
(*                                                                         *)
(* A timestamp string is a record: form "iso" with the instant it         *)
(* denotes, or form "garbage" for a string Date.parse cannot read.        *)
(* An optional value (T | null | undefined) is <<>> or <<v>>.             *)
(***************************************************************************)

MaxDocs == 2
MaxApprovalRecords == 2
MaxEvents == 3
MaxRecords == 3       \* documents + approvals + events of one input

MsPerMinute == 60000
MsPerDay == 86400000

\* instants the backend's timestamps denote: 1970-01-01T00:01Z, 1970-01-02T00:02Z
Instants == {60000, 86520000}

TimestampStrings ==
    { [form |-> "iso", ms |-> t] : t \in Instants } \cup { [form |-> "garbage", ms |-> 0] }

Opt(S) == {<<>>} \cup { <<x>> : x \in S }

\* JavaScript numbers as far as the comparators need them
Number(n) == [nan |-> FALSE, n |-> n]
NaN == [nan |-> TRUE, n |-> 0]
Minus(a, b) == IF a.nan \/ b.nan THEN NaN ELSE Number(a.n - b.n)
StrictNotEqual(a, b) == a.nan \/ b.nan \/ a.n # b.n             \* a !== b

\* Date.parse
DateParse(ts) == IF ts.form = "iso" THEN Number(ts.ms) ELSE NaN

\* formatLabel (CargoDetail.tsx:130-132) on the enum values of the model
formatLabel(value) ==
    CASE value = "DECLARATION_DRAFT" -> "Declaration Draft"
      [] value = "ASSESSMENT" -> "Assessment"
      [] value = "PENDING" -> "Pending"
      [] value = "APPROVED" -> "Approved"
      [] value = "REJECTED" -> "Rejected"
      [] value = "EXPIRED" -> "Expired"
      [] value = "PORT_OFFLOADED" -> "Port Offloaded"
      [] value = "GATE_OUT" -> "Gate Out"

\* formatIso (CargoDetail.tsx:134-141) of an optional timestamp string: the date is
\* toISOString().slice(0, 10), the time toISOString().slice(11, 16) + ' UTC'
formatIso(ts) ==
    IF ts = <<>>
    THEN [date |-> [kind |-> "dash", day |-> 0, raw |-> ""],
          time |-> [kind |-> "dash", minute |-> 0]]
    ELSE IF DateParse(ts[1]).nan
    THEN [date |-> [kind |-> "raw", day |-> 0, raw |-> ts[1].form],
          time |-> [kind |-> "empty", minute |-> 0]]
    ELSE [date |-> [kind |-> "iso", day |-> DateParse(ts[1]).n \div MsPerDay, raw |-> ""],
          time |-> [kind |-> "utc",
                    minute |-> (DateParse(ts[1]).n % MsPerDay) \div MsPerMinute]]

\* mockTimelineEvents (CargoDetail.tsx:58-80); 2024-12-25 is day 20082
mockTimelineEvents ==
    << [date |-> [kind |-> "iso", day |-> 20082, raw |-> ""],
        time |-> [kind |-> "utc", minute |-> 540],
        status |-> "Container Received at Port", location |-> "Port of Mombasa",
        completed |-> TRUE, detail |-> <<>>],
       [date |-> [kind |-> "iso", day |-> 20083, raw |-> ""],
        time |-> [kind |-> "utc", minute |-> 870],
        status |-> "Customs Declaration Submitted", location |-> "Kenya Revenue Authority",
        completed |-> TRUE, detail |-> <<>>],
       [date |-> [kind |-> "iso", day |-> 20084, raw |-> ""],
        time |-> [kind |-> "utc", minute |-> 615],
        status |-> "Awaiting Document Verification", location |-> "Galaxy Logistics",
        completed |-> FALSE, detail |-> <<>>] >>

\* ---- the comparefns (CargoDetail.tsx:147-152, 182, 186, 190, 236) ----

\* the comparefn of CargoDetail.tsx:147-152
CompareEvents(a, b) ==
    LET at == DateParse(a.event_time)
        bt == DateParse(b.event_time)
    IN  IF StrictNotEqual(at, bt)
        THEN Minus(at, bt)
        ELSE Minus(DateParse(a.recorded_at), DateParse(b.recorded_at))

\* the comparefns of the document timestamps
CompareAscending(a, b) == Minus(DateParse(a), DateParse(b))      \* lines 182, 236
CompareDescending(a, b) == Minus(DateParse(b), DateParse(a))     \* lines 186, 190

\* a comparefn that sorts the entries latest first
CompareEntriesDescending(a, b) == Minus(DateParse(b.at), DateParse(a.at))

\* the comparefn of CargoDetail.tsx:236
CompareEntries(a, b) == Minus(DateParse(a.at), DateParse(b.at))

\* the comparefns passed to Array.prototype.sort, by name
comparefn(fn, a, b) ==
    CASE fn = "events" -> CompareEvents(a, b)
      [] fn = "ascending" -> CompareAscending(a, b)
      [] fn = "descending" -> CompareDescending(a, b)
      [] fn = "entries" -> CompareEntries(a, b)

\* ---- Array.prototype.sort ----

\* SortCompare of ECMAScript: a NaN result of the comparefn counts as +0
SortCompare(v) == IF v.nan THEN 0 ELSE v.n

Sign(n) == IF n < 0 THEN -1 ELSE IF n > 0 THEN 1 ELSE 0

\* the comparefn named fn is a consistent comparator for the elements of seq
ConsistentComparator(seq, fn) ==
    LET CF(i, j) == Sign(SortCompare(comparefn(fn, seq[i], seq[j])))
        I == 1..Len(seq)
    IN  /\ \A i \in I : CF(i, i) = 0
        /\ \A i, j \in I : CF(i, j) = -CF(j, i)
        /\ \A i, j, k \in I :
              /\ (CF(i, j) = 0 /\ CF(j, k) = 0) => CF(i, k) = 0
              /\ (CF(i, j) < 0 /\ CF(j, k) < 0) => CF(i, k) < 0
              /\ (CF(i, j) > 0 /\ CF(j, k) > 0) => CF(i, k) > 0

\* the stable sort of seq (insertion of each element behind the elements that do not
\* compare greater)
StableSort(seq, fn) ==
    LET Insert(s, x) ==
            LET k == Cardinality({ i \in 1..Len(s) : SortCompare(comparefn(fn, s[i], x)) <= 0 })
            IN  SubSeq(s, 1, k) \o <<x>> \o SubSeq(s, k + 1, Len(s))
        sorted[n \in 0..Len(seq)] ==
            IF n = 0 THEN <<>> ELSE Insert(sorted[n - 1], seq[n])
    IN  sorted[Len(seq)]

PermutationsOf(seq) ==
    { [i \in 1..Len(seq) |-> seq[f[i]]] :
        f \in { g \in [1..Len(seq) -> 1..Len(seq)] :
                  \A i, j \in 1..Len(seq) : i # j => g[i] # g[j] } }

\* What seq.sort(comparefn) can leave in the array: the stable order when the
\* comparefn named fn is a consistent comparator for the elements, else an
\* implementation-defined order.
SortOutcomes(seq, fn) ==
    IF ConsistentComparator(seq, fn)
    THEN { StableSort(seq, fn) }
    ELSE PermutationsOf(seq)

\* array[0]
First(seq) == IF seq = <<>> THEN <<>> ELSE <<seq[1]>>

\* ---- mapEventsToTimeline (CargoDetail.tsx:143-163) ----

\* the .map callback of CargoDetail.tsx:153-161; "--" stands for the em dash
MapEvent(e) ==
    [date |-> formatIso(<<e.event_time>>).date,
     time |-> formatIso(<<e.event_time>>).time,
     status |-> formatLabel(e.event_type),
     location |-> IF e.location_id = <<>> THEN "--" ELSE e.location_id[1],
     completed |-> TRUE,
     detail |-> <<>>]

\* the arrays mapEventsToTimeline(events) can return
mapEventsToTimeline(events) ==
    IF Len(events) = 0
    THEN { <<>> }
    ELSE { [i \in 1..Len(sorted) |-> MapEvent(sorted[i])] :
             sorted \in SortOutcomes(events, "events") }

\* ---- buildDerivedTimeline (CargoDetail.tsx:165-248) ----

\* CargoDetail.tsx:177-178
uploadedDocs(cargoDetail) ==
    SelectSeq(cargoDetail.documents, LAMBDA d : d.status = "UPLOADED" /\ d.uploaded_at # <<>>)
verifiedDocs(cargoDetail) ==
    SelectSeq(cargoDetail.documents, LAMBDA d : d.status = "VERIFIED" /\ d.verified_at # <<>>)

\* uploadedDocs.map((d) => d.uploaded_at as string), verifiedDocs.map(...)
UploadTimes(cargoDetail) ==
    [i \in 1..Len(uploadedDocs(cargoDetail)) |-> uploadedDocs(cargoDetail)[i].uploaded_at[1]]
VerificationTimes(cargoDetail) ==
    [i \in 1..Len(verifiedDocs(cargoDetail)) |-> verifiedDocs(cargoDetail)[i].verified_at[1]]
\* the values earliestUpload, latestUpload and latestVerified can take
\* (CargoDetail.tsx:180-190), each optional
earliestUpload(cargoDetail) ==
    { First(s) : s \in SortOutcomes(UploadTimes(cargoDetail), "ascending") }
latestUpload(cargoDetail) ==
    { First(s) : s \in SortOutcomes(UploadTimes(cargoDetail), "descending") }
latestVerified(cargoDetail) ==
    { First(s) : s \in SortOutcomes(VerificationTimes(cargoDetail), "descending") }

\* CargoDetail.tsx:202-204
hasUploaded(cargoDetail) ==
    \E i \in 1..Len(cargoDetail.documents) : cargoDetail.documents[i].status = "UPLOADED"
hasAnyVerified(cargoDetail) ==
    \E i \in 1..Len(cargoDetail.documents) : cargoDetail.documents[i].status = "VERIFIED"

\* a validation step that does not look at verified documents
hasPendingValidationIgnoringVerified(cargoDetail) == hasUploaded(cargoDetail)

hasPendingValidation(cargoDetail) == hasUploaded(cargoDetail) /\ ~hasAnyVerified(cargoDetail)

\* a "Cargo created" entry that is not marked completed
CargoCreatedNotCompleted(cargoDetail) ==
    [label |-> "Cargo created", at |-> cargoDetail.cargo.created_at, detail |-> <<>>,
     completed |-> FALSE]

\* CargoDetail.tsx:170-174
CargoCreated(cargoDetail) ==
    [label |-> "Cargo created", at |-> cargoDetail.cargo.created_at, detail |-> <<>>,
     completed |-> TRUE]

\* CargoDetail.tsx:193-198
DocumentsUploaded(at) ==
    [label |-> "Documents uploaded", at |-> at,
     detail |-> <<"Files detected in bucket (pre-validation).">>, completed |-> TRUE]

\* CargoDetail.tsx:207-212: at is latestUpload ?? earliestUpload ?? created_at
ValidationInProgress(cargoDetail, earliest, latest) ==
    [label |-> "Validation in progress",
     at |-> IF latest # <<>> THEN latest[1]
            ELSE IF earliest # <<>> THEN earliest[1]
            ELSE cargoDetail.cargo.created_at,
     detail |-> <<"Documents are present in the bucket and awaiting verification.">>,
     completed |-> FALSE]

\* CargoDetail.tsx:216-220
DocumentsVerified(at) ==
    [label |-> "Documents verified", at |-> at, detail |-> <<>>, completed |-> TRUE]

\* an approval entry that is always placed at the creation of the approval
ApprovalEntryAtCreation(a) ==
    [label |-> formatLabel(a.kind) \o " " \o formatLabel(a.status),
     at |-> a.created_at,
     detail |-> IF a.decided_at # <<>> THEN <<"Decided">> ELSE <<"Awaiting decision">>,
     completed |-> a.status # "PENDING"]

\* CargoDetail.tsx:225-230; the locale rendering of decided_at in `detail` is left out
ApprovalEntry(a) ==
    [label |-> formatLabel(a.kind) \o " " \o formatLabel(a.status),
     at |-> IF a.decided_at # <<>> THEN a.decided_at[1] ELSE a.created_at,
     detail |-> IF a.decided_at # <<>> THEN <<"Decided">> ELSE <<"Awaiting decision">>,
     completed |-> a.status # "PENDING"]

\* the `events` array after line 231, for given values of earliestUpload,
\* latestUpload and latestVerified
SynthesizedEntries(cargoDetail, approvalList, earliest, latest, verified) ==
    <<CargoCreated(cargoDetail)>>
    \o (IF earliest # <<>> THEN <<DocumentsUploaded(earliest[1])>> ELSE <<>>)
    \o (IF hasPendingValidation(cargoDetail)
        THEN <<ValidationInProgress(cargoDetail, earliest, latest)>> ELSE <<>>)
    \o (IF verified # <<>> THEN <<DocumentsVerified(verified[1])>> ELSE <<>>)
    \o [i \in 1..Len(approvalList) |-> ApprovalEntry(approvalList[i])]

\* the filter callback of CargoDetail.tsx:235
TimestampParses(e) == ~DateParse(e.at).nan

\* the .map callback of CargoDetail.tsx:237-247
MapEntry(ev) ==
    [date |-> formatIso(<<ev.at>>).date,
     time |-> formatIso(<<ev.at>>).time,
     status |-> ev.label,
     location |-> "--",
     completed |-> ev.completed,
     detail |-> ev.detail]

\* CargoDetail.tsx:234-247: the arrays returned for a given `events` array
FilterSortMap(entries) ==
    { [i \in 1..Len(sorted) |-> MapEntry(sorted[i])] :
        sorted \in SortOutcomes(SelectSeq(entries, TimestampParses), "entries") }

\* the runs of buildDerivedTimeline(cargoDetail, approvals): the `events` array built and
\* the array returned
buildDerivedTimeline(cargoDetail, approvalList) ==
    UNION { LET entries == SynthesizedEntries(cargoDetail, approvalList, c[1], c[2], c[3])
            IN  { [events |-> entries, out |-> out] : out \in FilterSortMap(entries) } :
            c \in earliestUpload(cargoDetail) \X latestUpload(cargoDetail) \X latestVerified(cargoDetail) }

\* ---- the timelineEvents memo (CargoDetail.tsx:396-404) ----

\* the returns timelineEvents can make for a detail state and an approval list
timelineEvents(cargoDetail, approvalList) ==
    IF cargoDetail.isNull
    THEN { [branch |-> "mock", out |-> mockTimelineEvents] }
    ELSE IF \E mapped \in mapEventsToTimeline(cargoDetail.events) : Len(mapped) > 0
    THEN { [branch |-> "mapped", out |-> mapped] :
             mapped \in mapEventsToTimeline(cargoDetail.events) }
    ELSE { IF Len(r.out) > 0
           THEN [branch |-> "derived", out |-> r.out]
           ELSE [branch |-> "mock", out |-> mockTimelineEvents] :
             r \in buildDerivedTimeline(cargoDetail, approvalList) }

\* ---- inputs ----

\* documents as the timeline reads them: status, uploaded_at, verified_at. A
\* document that is not uploaded yet carries no timestamp, one that is not
\* verified yet no verified_at.
DocRecords ==
    { [status |-> "PENDING", uploaded_at |-> <<>>, verified_at |-> <<>>] }
    \cup { [status |-> "UPLOADED", uploaded_at |-> u, verified_at |-> <<>>] :
             u \in Opt(TimestampStrings) }
    \cup { [status |-> "VERIFIED", uploaded_at |-> u, verified_at |-> v] :
             u \in {<<>>, <<[form |-> "iso", ms |-> 60000]>>}, v \in Opt(TimestampStrings) }

\* approvals as the timeline reads them: kind, status, created_at, decided_at
ApprovalRecords ==
    { [kind |-> "DECLARATION_DRAFT", status |-> "PENDING", created_at |-> c,
       decided_at |-> <<>>] : c \in TimestampStrings }
    \cup { [kind |-> "DECLARATION_DRAFT", status |-> "APPROVED", created_at |-> c,
            decided_at |-> <<d>>] : c \in TimestampStrings, d \in TimestampStrings }
    \cup { [kind |-> "ASSESSMENT", status |-> "EXPIRED", created_at |-> c,
            decided_at |-> <<>>] : c \in TimestampStrings }

EventRecords ==
    { [event_type |-> "PORT_OFFLOADED", event_time |-> t, recorded_at |-> r,
       location_id |-> <<>>] : t \in TimestampStrings, r \in TimestampStrings }

NoTimelineDetail ==
    [isNull |-> TRUE, cargo |-> [created_at |-> [form |-> "garbage", ms |-> 0]],
     documents |-> <<>>, events |-> <<>>]

\* no function of the timeline view model has been applied
TimelineIdle ==
    /\ tlDetail = NoTimelineDetail
    /\ tlApprovals = <<>>
    /\ tlPc = "none"
    /\ tlBranch = "none"
    /\ tlEvents = <<>>
    /\ tlOut = <<>>

\* the inputs of the timeline functions: the detail state is null, or a loaded
\* detail with bounded documents and events, and a bounded approval list
TimelineInputs ==
    /\ tlPc = "input"
    /\ tlBranch = "none"
    /\ tlEvents = <<>>
    /\ tlOut = <<>>
    /\ \/ tlDetail = NoTimelineDetail /\ tlApprovals = <<>>
       \/ \E nd \in 0..MaxDocs, na \in 0..MaxApprovalRecords, ne \in 0..MaxEvents :
            /\ nd + na + ne <= MaxRecords
            /\ \E created \in TimestampStrings,
                  docs \in [1..nd -> DocRecords],
                  evs \in [1..ne -> EventRecords] :
                 tlDetail = [isNull |-> FALSE, cargo |-> [created_at |-> created],
                             documents |-> docs, events |-> evs]
            /\ tlApprovals \in [1..na -> ApprovalRecords]

\* buildDerivedTimeline(detail, approvals) is applied to the input
BuildDerivedTimeline ==
    /\ tlPc = "input"
    /\ ~tlDetail.isNull
    /\ \E r \in buildDerivedTimeline(tlDetail, tlApprovals) :
        /\ tlEvents' = r.events
        /\ tlOut' = r.out
    /\ tlPc' = "built"
    /\ UNCHANGED <<VITE_WORKERS_ENABLED, helperVars, authVars, fjVars, screenVars, tlDetail, tlApprovals, tlBranch>>

\* the timelineEvents memo is computed for the input
RenderTimelineEvents ==
    /\ tlPc = "input"
    /\ \E r \in timelineEvents(tlDetail, tlApprovals) :
        /\ tlBranch' = r.branch
        /\ tlOut' = r.out
    /\ tlPc' = "rendered"
    /\ UNCHANGED <<VITE_WORKERS_ENABLED, helperVars, authVars, fjVars, screenVars, tlDetail, tlApprovals, tlEvents>>

(***************************************************************************)
(* Part 4: the helpers getNextRequiredActionInfo and computeSlaHint       *)
(* (CargoDetail.tsx:266-319) and insertClientDocument (client.ts:30-58)   *)
(*                                                                         *)
(* An enum string is the sequence of its words, the text between the      *)
(* underscores: CLIENT_OPS_REVIEW is <<"CLIENT", "OPS", "REVIEW">>. A     *)
(* title is the sequence of its words, the text between the spaces.       *)
(***************************************************************************)

MaxWords == 3

Words == {"CLIENT", "OPS", "REVIEW", "HOLD"}

OPS_INSERT_PORT_OFFLOADED == <<"OPS", "INSERT", "PORT", "OFFLOADED">>
CLIENT_UPLOAD_REQUIRED_DOCUMENTS == <<"CLIENT", "UPLOAD", "REQUIRED", "DOCUMENTS">>
COMPLETE == <<"COMPLETE">>

\* the raw values the cases of the switch name (CargoDetail.tsx:269, 275, 281)
KnownActions == {OPS_INSERT_PORT_OFFLOADED, CLIENT_UPLOAD_REQUIRED_DOCUMENTS, COMPLETE}

RawActions == KnownActions \cup UNION { [1..n -> Words] : n \in 1..MaxWords }

\* String.prototype.replace(/^PREFIX_/, ''): the prefix word and its underscore
ReplaceLeading(words, prefix) ==
    IF Len(words) >= 2 /\ words[1] = prefix THEN Tail(words) ELSE words

\* String.prototype.toLowerCase on a word
toLowerCase(word) ==
    CASE word = "CLIENT" -> "client"
      [] word = "OPS" -> "ops"
      [] word = "REVIEW" -> "review"
      [] word = "HOLD" -> "hold"

\* c.toUpperCase() on the first character of a word
UpperFirst(word) ==
    CASE word = "client" -> "Client"
      [] word = "ops" -> "Ops"
      [] word = "review" -> "Review"
      [] word = "hold" -> "Hold"

\* .replace(/_/g, ' ').toLowerCase(): the words stay, the separators become spaces
SpacedLowerCase(words) == [i \in 1..Len(words) |-> toLowerCase(words[i])]

\* .replace(/^\w/, (c) => c.toUpperCase())
ReplaceFirstCharUpper(words) ==
    IF Len(words) = 0 THEN words
    ELSE <<UpperFirst(words[1])>> \o Tail(words)

\* getNextRequiredActionInfo (CargoDetail.tsx:266-298)
getNextRequiredActionInfo(rawAction) ==
    IF rawAction = OPS_INSERT_PORT_OFFLOADED
    THEN [title |-> <<"Waiting", "for", "Port", "Offloading", "Confirmation">>,
          subtitle |-> <<"(Ops)">>, raw |-> rawAction]
    ELSE IF rawAction = CLIENT_UPLOAD_REQUIRED_DOCUMENTS
    THEN [title |-> <<"Waiting", "for", "Required", "Documents">>,
          subtitle |-> <<"(You)">>, raw |-> rawAction]
    ELSE IF rawAction = COMPLETE
    THEN [title |-> <<"No", "action", "required">>, subtitle |-> <<>>, raw |-> rawAction]
    ELSE [title |-> ReplaceFirstCharUpper(SpacedLowerCase(
                        ReplaceLeading(ReplaceLeading(rawAction, "CLIENT"), "OPS"))),
          subtitle |-> <<>>, raw |-> rawAction]

NoActionInfo == [title |-> <<>>, subtitle |-> <<>>, raw |-> <<>>]

\* ---- computeSlaHint (CargoDetail.tsx:300-319) ----

MaxNowDays == 11
MsPerHour == 3600000

\* Date.now() at the call: midnight of day 10 .. MaxNowDays
Nows == { d * MsPerDay : d \in 10..MaxNowDays }

\* ETA - now, in ms, of the ETAs of the model: around 0, around the half hours
\* Math.round turns on, around 24 hours and around 2 days, and 3 days
EtaOffsets ==
    LET around(x) == {x - 1, x, x + 1}
        forward == {0, 1} \cup around(MsPerHour \div 2) \cup around(MsPerHour)
                     \cup around(12 * MsPerHour) \cup around(12 * MsPerHour + MsPerHour \div 2)
                     \cup around(MsPerDay) \cup around(47 * MsPerHour + MsPerHour \div 2)
                     \cup around(2 * MsPerDay) \cup {3 * MsPerDay}
    IN  forward \cup { -x : x \in forward }

\* Math.round and Math.floor of a quotient of non-negative integers
MathFloorQuotient(n, d) == n \div d
MathRoundQuotientDown(n, d) == n \div d
MathRoundQuotient(n, d) == (2 * n + d) \div (2 * d)

\* a risk window that includes overdue ETAs
AtRiskIncludingOverdue(msRemaining) == msRemaining <= 24 * 60 * 60 * 1000

\* CargoDetail.tsx:314
AtRisk(msRemaining) == msRemaining >= 0 /\ msRemaining <= 24 * 60 * 60 * 1000

\* computeSlaHint(eta) at Date.now() = now; the label `SLA: ${status} (${timeText})`
\* is kept as its parts
computeSlaHint(eta, now) ==
    IF eta = <<>> THEN <<>>                                       \* if (!eta) return null
    ELSE IF DateParse(eta[1]).nan THEN <<>>
    ELSE LET msRemaining == DateParse(eta[1]).n - now
             abs == IF msRemaining < 0 THEN -msRemaining ELSE msRemaining
             hours == MathRoundQuotient(abs, MsPerHour)
             days == MathFloorQuotient(abs, MsPerDay)
             remainingText == IF msRemaining >= 0 THEN "remaining" ELSE "overdue"
             atRisk == AtRisk(msRemaining)
         IN  << [label |-> [status |-> IF atRisk THEN "At Risk" ELSE "On Track",
                            amount |-> IF days >= 2 THEN days ELSE hours,
                            unit |-> IF days >= 2 THEN "days" ELSE "hours",
                            suffix |-> remainingText],
                 tone |-> IF atRisk THEN "risk" ELSE "ok"] >>

\* the cargo ids of the model
CargoIds == {"c1", "c2"}

\* ---- insertClientDocument (client.ts:30-58) ----

InsertInputs ==
    [cargoId : CargoIds, documentType : {"PACKING_LIST", "INVOICE"},
     driveUrl : {"cargo/c1/a.pdf", "cargo/c2/b.pdf"}]

\* what the response body parses to: res.json() rejects ("invalid"), null, or an
\* object with or without an id (the empty string among the ids) and, possibly,
\* further fields
InsertBodies ==
    {[json |-> "invalid", id |-> <<>>, extra |-> FALSE],
     [json |-> "null", id |-> <<>>, extra |-> FALSE]}
      \cup [json : {"object"}, id : {<<>>, <<"">>, <<"d1">>}, extra : BOOLEAN]

InsertStatuses == {200, 201, 404, 500}

\* getBaseUrl (client.ts:7-13): the value, or <<>> where it throws
getBaseUrl == icBaseUrl

\* a check of the id that accepts every parsed body
MissingIdUnchecked(data) == FALSE

\* !data?.id (client.ts:54)
MissingId(data) == data.json # "object" \/ data.id = <<>> \/ data.id = <<"">>

NoInsertInput == [cargoId |-> "", documentType |-> "", driveUrl |-> ""]

InsertIdle ==
    /\ icPc = "none" /\ icInput = NoInsertInput /\ icBaseUrl = <<>>
    /\ icSent = <<>> /\ icResult = <<>>

InsertCalled ==
    /\ icPc = "called" /\ icInput \in InsertInputs
    /\ icBaseUrl \in {<<>>, <<"https://api.example">>}
    /\ icSent = <<>> /\ icResult = <<>>

\* insertClientDocument up to `await fetch` (client.ts:31-46)
InsertClientDocument ==
    /\ icPc = "called"
    /\ IF ~workersEnabled
       THEN /\ icPc' = "rejected"
            /\ icResult' = <<[error |-> "API is disabled (VITE_WORKERS_ENABLED=false)"]>>
            /\ UNCHANGED icSent
       ELSE IF getBaseUrl = <<>>
       THEN /\ icPc' = "rejected"
            /\ icResult' = <<[error |-> "VITE_API_BASE_URL is not set"]>>
            /\ UNCHANGED icSent
       ELSE /\ icPc' = "fetch"
            /\ icSent' = Append(icSent,
                                [method |-> "POST",
                                 base |-> getBaseUrl[1],
                                 path |-> "/client/documents",
                                 body |-> [cargo_id |-> icInput.cargoId,
                                           document_type |-> icInput.documentType,
                                           drive_url |-> icInput.driveUrl]])
            /\ UNCHANGED icResult
    /\ UNCHANGED <<VITE_WORKERS_ENABLED, fjVars, screenVars, timelineVars, authVars,
                   naPc, naRaw, naInfo, slaPc, slaEta, slaNow, slaHint, icInput, icBaseUrl>>

\* fetch rejects (network error): the await of client.ts:35 throws
InsertFetchRejects ==
    /\ icPc = "fetch"
    /\ icPc' = "rejected"
    /\ icResult' = <<[error |-> "Failed to fetch"]>>
    /\ UNCHANGED <<VITE_WORKERS_ENABLED, fjVars, screenVars, timelineVars, authVars,
                   naPc, naRaw, naInfo, slaPc, slaEta, slaNow, slaHint, icInput, icBaseUrl,
                   icSent>>

\* the response arrives and its body is read (client.ts:48-57)
InsertResponds ==
    /\ icPc = "fetch"
    /\ \E status \in InsertStatuses, data \in InsertBodies :
          IF ~ResOk(status)
          THEN /\ icPc' = "rejected"
               /\ icResult' = <<[error |-> "insertClientDocument failed"]>>
          ELSE IF data.json = "invalid"
          THEN /\ icPc' = "rejected"
               /\ icResult' = <<[error |-> "SyntaxError"]>>
          ELSE IF MissingId(data)
          THEN /\ icPc' = "rejected"
               /\ icResult' = <<[error |-> "insertClientDocument: missing id"]>>
          ELSE /\ icPc' = "resolved"
               /\ icResult' = <<[status |-> status, data |-> data,
                                 value |-> [id |-> data.id]]>>
    /\ UNCHANGED <<VITE_WORKERS_ENABLED, fjVars, screenVars, timelineVars, authVars,
                   naPc, naRaw, naInfo, slaPc, slaEta, slaNow, slaHint, icInput, icBaseUrl,
                   icSent>>

InsertNext ==
    \/ InsertClientDocument
    \/ InsertFetchRejects
    \/ InsertResponds

\* ---- inputs and applications ----

LabelsIdle ==
    /\ naPc = "none" /\ naRaw = <<>> /\ naInfo = NoActionInfo
    /\ slaPc = "none" /\ slaEta = <<>> /\ slaNow = 0 /\ slaHint = <<>>

HelpersIdle == LabelsIdle /\ InsertIdle

ActionInputs ==
    /\ naPc = "input" /\ naRaw \in RawActions /\ naInfo = NoActionInfo
    /\ slaPc = "none" /\ slaEta = <<>> /\ slaNow = 0 /\ slaHint = <<>>
    /\ InsertIdle

SlaInputs ==
    /\ naPc = "none" /\ naRaw = <<>> /\ naInfo = NoActionInfo
    /\ slaPc = "input" /\ slaHint = <<>>
    /\ InsertIdle
    /\ slaNow \in Nows
    /\ \/ slaEta = <<>>
       \/ slaEta = <<[form |-> "garbage", ms |-> 0]>>
       \/ \E offset \in EtaOffsets : slaEta = <<[form |-> "iso", ms |-> slaNow + offset]>>

\* the nextRequiredActionInfo memo (CargoDetail.tsx:367)
GetNextRequiredActionInfo ==
    /\ naPc = "input"
    /\ naInfo' = getNextRequiredActionInfo(naRaw)
    /\ naPc' = "returned"
    /\ UNCHANGED <<VITE_WORKERS_ENABLED, fjVars, screenVars, timelineVars, authVars,
                   naRaw, slaPc, slaEta, slaNow, slaHint, insertVars>>

\* the slaHint memo (CargoDetail.tsx:382)
ComputeSlaHint ==
    /\ slaPc = "input"
    /\ slaHint' = computeSlaHint(slaEta, slaNow)
    /\ slaPc' = "returned"
    /\ UNCHANGED <<VITE_WORKERS_ENABLED, fjVars, screenVars, timelineVars, authVars,
                   naPc, naRaw, naInfo, slaEta, slaNow, insertVars>>

(***************************************************************************)
(* Part 5: authentication: the access token of supabase.ts, AuthProvider   *)
(* (AuthContext.tsx), AuthGateClient and the screens of App.tsx            *)
(***************************************************************************)

MaxRequests == 2

Tokens == {"t1", "t2"}

\* the token a refresh of the session issues in place of an expired one
RefreshedToken(token) == IF token = "t1" THEN "t2" ELSE "t1"

\* getAuthHeader (http.ts:11-14, client.ts:15-21): <<>> for {}
getAuthHeader == IF accessToken = <<>> THEN <<>> ELSE <<"Bearer", accessToken[1]>>

\* what App renders inside the gate (AuthGateClient.tsx:42-50, App.tsx:36-58)
AppView ==
    IF ~apMounted THEN "unmounted"
    ELSE IF gatePc # "ready" THEN "gate loading"
    ELSE IF ~ready THEN "loading"
    ELSE IF ~authenticated THEN "redirect"
    ELSE IF currentScreen = "detail" /\ selectedCargoId # <<>> THEN "detail"
    ELSE "list"

\* a callback that forgets setAuthError
OnChangeWithoutError(authenticatedArg, errorArg) ==
    IF apCancelled
    THEN UNCHANGED <<ready, authenticated, authError>>
    ELSE /\ authError' = authError
         /\ authenticated' = authenticatedArg
         /\ ready' = TRUE

\* the callback AuthProvider hands to initSupabaseAuth (AuthContext.tsx:24-29)
OnChange(authenticatedArg, errorArg) ==
    IF apCancelled
    THEN UNCHANGED <<ready, authenticated, authError>>
    ELSE /\ authError' = errorArg
         /\ authenticated' = authenticatedArg
         /\ ready' = TRUE

\* an effect that bounces back to the list but keeps the selected cargo
AuthenticatedEffectKeepingCargo(isAuthenticated) ==
    IF ~isAuthenticated
    THEN currentScreen' = "list" /\ UNCHANGED selectedCargoId
    ELSE UNCHANGED <<currentScreen, selectedCargoId>>

\* the effect of App on [authenticated] (App.tsx:13-19)
AuthenticatedEffect(isAuthenticated) ==
    IF ~isAuthenticated
    THEN currentScreen' = "list" /\ selectedCargoId' = <<>>
    ELSE UNCHANGED <<currentScreen, selectedCargoId>>

\* one onChange call: the provider's callback, and, when App is mounted and
\* `authenticated` changed, the render of App followed by its effect
Notify(authenticatedArg, errorArg, tokenLeft) ==
    /\ OnChange(authenticatedArg, errorArg)
    /\ notifications' = <<[authenticated |-> authenticatedArg, token |-> tokenLeft]>>
    /\ IF apMounted /\ gatePc = "ready" /\ authenticated' # authenticated
       THEN AuthenticatedEffect(authenticated')
       ELSE UNCHANGED <<currentScreen, selectedCargoId>>

\* the listener of supabase.ts:69-72, when it is subscribed
AuthStateChangeCallback(session) ==
    IF sbListener = "subscribed"
    THEN /\ accessToken' = session
         /\ Notify(session # <<>>, <<>>, session)
    ELSE UNCHANGED <<accessToken, ready, authenticated, authError, notifications,
                     currentScreen, selectedCargoId>>

\* sb.auth.getSession() resolves with no error: supabase.ts:60-63, the subscription
\* of 69-76 and the then-handler of AuthContext.tsx:30-32
InitGetSessionResolves ==
    /\ initPc = "awaiting"
    /\ accessToken' = sbSession
    /\ Notify(sbSession # <<>>, <<>>, sbSession)
    /\ sbListener' = "subscribed"
    /\ initPc' = "returned"
    /\ initOutcome' = IF sbSession # <<>> THEN "session" ELSE "nosession"
    /\ unsubscribe' = "set"
    /\ UNCHANGED <<VITE_WORKERS_ENABLED, fjVars, screenVars, timelineVars, helperVars,
                   supabaseConfigured, sbSession, apMounted, apCancelled, gatePc,
                   hashToken, apiRequests>>

\* sb.auth.getSession() fails: supabase.ts:64-67, then 69-76 and AuthContext.tsx:30-32
InitGetSessionFails ==
    /\ initPc = "awaiting"
    /\ accessToken' = <<>>
    /\ Notify(FALSE, <<"getSession failed">>, <<>>)
    /\ sbListener' = "subscribed"
    /\ initPc' = "returned"
    /\ initOutcome' = "failed"
    /\ unsubscribe' = "set"
    /\ UNCHANGED <<VITE_WORKERS_ENABLED, fjVars, screenVars, timelineVars, helperVars,
                   supabaseConfigured, sbSession, apMounted, apCancelled, gatePc,
                   hashToken, apiRequests>>

\* the session changes outside this page's calls (sign-in or sign-out in another
\* tab, token refresh, expiry); the listener is told
SessionChanges ==
    /\ supabaseConfigured
    /\ gatePc # "setSession"
    /\ \E session \in {<<>>} \cup { <<t>> : t \in Tokens } :
          /\ session # sbSession
          /\ sbSession' = session
          /\ AuthStateChangeCallback(session)
    /\ UNCHANGED <<VITE_WORKERS_ENABLED, fjVars, screenVars, timelineVars, helperVars,
                   supabaseConfigured, sbListener, initPc, initOutcome, apMounted,
                   apCancelled, unsubscribe, gatePc, hashToken, apiRequests>>

\* handleLogout (App.tsx:31-34) through logout (supabase.ts:85-89): signOut succeeds
HandleLogout ==
    /\ AppView = "list"
    /\ sbSession' = <<>>
    /\ AuthStateChangeCallback(<<>>)
    /\ UNCHANGED <<VITE_WORKERS_ENABLED, fjVars, screenVars, timelineVars, helperVars,
                   supabaseConfigured, sbListener, initPc, initOutcome, apMounted,
                   apCancelled, unsubscribe, gatePc, hashToken, apiRequests>>

\* the cleanup of the effects (AuthContext.tsx:42-45, AuthGateClient.tsx:37-39)
UnmountRoot ==
    /\ apMounted
    /\ apMounted' = FALSE
    /\ apCancelled' = TRUE
    /\ sbListener' = IF unsubscribe = "set" /\ sbListener = "subscribed"
                     THEN "unsubscribed" ELSE sbListener
    /\ UNCHANGED <<VITE_WORKERS_ENABLED, fjVars, screenVars, timelineVars, helperVars,
                   supabaseConfigured, sbSession, accessToken, initPc, initOutcome,
                   unsubscribe, ready, authenticated, authError, notifications, gatePc,
                   hashToken, currentScreen, selectedCargoId, apiRequests>>

\* setSessionFromUrlHash after sb.auth.setSession resolved without error
\* (supabase.ts:34-42): the session carries the given access token, or the one a
\* refresh issued when the given one had expired; the listener is told before
\* setSession resolves; then AuthGateClient.tsx:17-21 asks for the session
GateSetSessionResolves ==
    /\ gatePc = "setSession"
    /\ \E token \in {hashToken[1], RefreshedToken(hashToken[1])} :
          /\ sbSession' = <<token>>
          /\ IF sbListener = "subscribed"
             THEN Notify(TRUE, <<>>, <<token>>)
             ELSE UNCHANGED <<ready, authenticated, authError, notifications,
                              currentScreen, selectedCargoId>>
    /\ accessToken' = hashToken
    /\ gatePc' = "getSession"
    /\ UNCHANGED <<VITE_WORKERS_ENABLED, fjVars, screenVars, timelineVars, helperVars,
                   supabaseConfigured, sbListener, initPc, initOutcome, apMounted,
                   apCancelled, unsubscribe, hashToken, apiRequests>>

\* sb.auth.setSession reports an error: supabase.ts:35 throws, AuthGateClient.tsx:30-33
GateSetSessionFails ==
    /\ gatePc = "setSession"
    /\ gatePc' = "redirected"
    /\ UNCHANGED <<VITE_WORKERS_ENABLED, fjVars, screenVars, timelineVars, helperVars,
                   supabaseConfigured, sbSession, sbListener, accessToken, initPc,
                   initOutcome, apMounted, apCancelled, unsubscribe, ready, authenticated,
                   authError, notifications, hashToken, currentScreen, selectedCargoId,
                   apiRequests>>

\* the getSession of the gate settles (AuthGateClient.tsx:21-33); when the gate
\* opens App mounts and its effect runs
GateGetSessionSettles ==
    /\ gatePc = "getSession"
    /\ \E failed \in BOOLEAN :
          IF failed \/ sbSession = <<>>
          THEN /\ gatePc' = "redirected"
               /\ UNCHANGED <<currentScreen, selectedCargoId>>
          ELSE IF apCancelled
          THEN /\ gatePc' = "cancelled"
               /\ UNCHANGED <<currentScreen, selectedCargoId>>
          ELSE /\ gatePc' = "ready"
               /\ AuthenticatedEffect(authenticated)
    /\ UNCHANGED <<VITE_WORKERS_ENABLED, fjVars, screenVars, timelineVars, helperVars,
                   supabaseConfigured, sbSession, sbListener, accessToken, initPc,
                   initOutcome, apMounted, apCancelled, unsubscribe, ready, authenticated,
                   authError, notifications, hashToken, apiRequests>>

\* handleSelectCargo (App.tsx:21-24), from a row of the list
HandleSelectCargo ==
    /\ AppView = "list"
    /\ \E cargoId \in CargoIds :
          /\ selectedCargoId' = <<cargoId>>
          /\ currentScreen' = "detail"
    /\ UNCHANGED <<VITE_WORKERS_ENABLED, fjVars, screenVars, timelineVars, helperVars,
                   supabaseConfigured, sbSession, sbListener, accessToken, initPc,
                   initOutcome, apMounted, apCancelled, unsubscribe, ready, authenticated,
                   authError, notifications, gatePc, hashToken, apiRequests>>

\* handleBack (App.tsx:26-29), from the detail screen
HandleBack ==
    /\ AppView = "detail"
    /\ currentScreen' = "list"
    /\ selectedCargoId' = <<>>
    /\ UNCHANGED <<VITE_WORKERS_ENABLED, fjVars, screenVars, timelineVars, helperVars,
                   supabaseConfigured, sbSession, sbListener, accessToken, initPc,
                   initOutcome, apMounted, apCancelled, unsubscribe, ready, authenticated,
                   authError, notifications, gatePc, hashToken, apiRequests>>

\* a screen, or a handler of a screen that went on after a sign-out, starts an
\* API request: the headers of client.ts:37-40 are built at the call; the entry
\* keeps what held at that moment
StartApiRequest ==
    /\ apMounted /\ gatePc = "ready" /\ ready
    /\ Len(apiRequests) < MaxRequests
    /\ apiRequests' = Append(apiRequests,
                             [header |-> getAuthHeader,
                              view |-> AppView,
                              authenticated |-> authenticated,
                              session |-> sbSession,
                              notified |-> notifications])
    /\ UNCHANGED <<VITE_WORKERS_ENABLED, fjVars, screenVars, timelineVars, helperVars,
                   supabaseConfigured, sbSession, sbListener, accessToken, initPc,
                   initOutcome, apMounted, apCancelled, unsubscribe, ready, authenticated,
                   authError, notifications, gatePc, hashToken, currentScreen,
                   selectedCargoId>>

\* no provider is modelled
AuthIdle ==
    /\ supabaseConfigured = TRUE /\ sbSession = <<>> /\ sbListener = "none"
    /\ accessToken = <<>> /\ initPc = "none" /\ initOutcome = "pending"
    /\ apMounted = FALSE /\ apCancelled = FALSE /\ unsubscribe = "null"
    /\ ready = FALSE /\ authenticated = FALSE /\ authError = <<>>
    /\ notifications = <<>> /\ gatePc = "none" /\ hashToken = <<>>
    /\ currentScreen = "list" /\ selectedCargoId = <<>> /\ apiRequests = <<>>

\* the page after the first commit of main.tsx:8-14: the effect of AuthGateClient
\* ran up to its first await (AuthGateClient.tsx:12-21), then the effect of
\* AuthProvider up to the await of supabase.ts:60; without the configuration
\* getSupabase threw in both (supabase.ts:11-12, 51-57, AuthGateClient.tsx:30-33)
AuthMounted ==
    /\ supabaseConfigured \in BOOLEAN
    /\ sbSession \in {<<>>} \cup { <<t>> : t \in Tokens }
    /\ hashToken \in {<<>>} \cup { <<t>> : t \in Tokens }
    /\ ~supabaseConfigured => sbSession = <<>>
    /\ sbListener = "none"
    /\ accessToken = <<>>
    /\ apMounted = TRUE /\ apCancelled = FALSE
    /\ currentScreen = "list" /\ selectedCargoId = <<>> /\ apiRequests = <<>>
    /\ IF supabaseConfigured
       THEN /\ initPc = "awaiting" /\ initOutcome = "pending"
            /\ unsubscribe = "null"
            /\ ready = FALSE /\ authenticated = FALSE /\ authError = <<>>
            /\ notifications = <<>>
            /\ gatePc = IF hashToken # <<>> THEN "setSession" ELSE "getSession"
       ELSE /\ initPc = "returned" /\ initOutcome = "config"
            /\ unsubscribe = "set"
            /\ ready = TRUE /\ authenticated = FALSE
            /\ authError = <<"VITE_SUPABASE_URL is not set">>
            /\ notifications = <<[authenticated |-> FALSE, token |-> <<>>]>>
            /\ gatePc = "redirected"

AuthNext ==
    \/ InitGetSessionResolves
    \/ InitGetSessionFails
    \/ SessionChanges
    \/ HandleLogout
    \/ UnmountRoot
    \/ GateSetSessionResolves
    \/ GateSetSessionFails
    \/ GateGetSessionSettles
    \/ HandleSelectCargo
    \/ HandleBack
    \/ StartApiRequest

HttpNext ==
    \/ FetchJsonCall
    \/ Tick
    \/ FetchResponds
    \/ FetchFails
    \/ TextSettles
    \/ JsonResolves
    \/ JsonFails
    \/ TimerFires

ApprovalsNext ==
    \/ LoadServeDetail
    \/ LoadServeApprovals
    \/ LoadThen
    \/ LoadCatch
    \/ Unmount
    \/ HandleApprovalApprove
    \/ HandleApprovalReject
    \/ DecisionResolves
    \/ DecisionRejects

UploadNext ==
    \/ LoadServeDetail
    \/ LoadServeApprovals
    \/ LoadThen
    \/ LoadCatch
    \/ Unmount
    \/ HandleUploadClick
    \/ CloseModal
    \/ ChooseFile
    \/ DropFile
    \/ UploadUrlResolves
    \/ UploadUrlRejects
    \/ PutSettles
    \/ InsertSettles
    \/ RefreshServeDetail
    \/ RefreshServeApprovals
    \/ RefreshResolves
    \/ RefreshRejects

\* The detail screen, while it is mounted, with decisions and uploads interleaved.
\* The clicks are those of Part 2, with their own bounds on how many a run makes.
MaxScreenDecisions == 1
MaxScreenFlows == 1

ScreenApprove == Len(decisions) < MaxScreenDecisions /\ HandleApprovalApprove
ScreenReject == Len(decisions) < MaxScreenDecisions /\ HandleApprovalReject
ScreenChooseFile == Len(flows) < MaxScreenFlows /\ ChooseFile
ScreenDropFile == Len(flows) < MaxScreenFlows /\ DropFile

ScreenNext ==
    \/ LoadServeDetail
    \/ LoadServeApprovals
    \/ LoadThen
    \/ LoadCatch
    \/ ScreenApprove
    \/ ScreenReject
    \/ DecisionResolves
    \/ DecisionRejects
    \/ HandleUploadClick
    \/ CloseModal
    \/ ScreenChooseFile
    \/ ScreenDropFile
    \/ UploadUrlResolves
    \/ UploadUrlRejects
    \/ PutSettles
    \/ InsertSettles
    \/ RefreshServeDetail
    \/ RefreshServeApprovals
    \/ RefreshResolves
    \/ RefreshRejects

TimelineNext ==
    \/ BuildDerivedTimeline
    \/ RenderTimelineEvents

Init ==
    /\ VITE_WORKERS_ENABLED \in EnvValues
    /\ FjIdle
    /\ ScreenInit
    /\ TimelineIdle
    /\ HelpersIdle
    /\ AuthIdle

InitTimeline ==
    /\ VITE_WORKERS_ENABLED = "true"
    /\ FjIdle
    /\ ScreenInit
    /\ TimelineInputs
    /\ HelpersIdle
    /\ AuthIdle

InitAction ==
    /\ VITE_WORKERS_ENABLED = "true"
    /\ FjIdle
    /\ ScreenInit
    /\ TimelineIdle
    /\ ActionInputs
    /\ AuthIdle

InitAuth ==
    /\ VITE_WORKERS_ENABLED = "true"
    /\ FjIdle
    /\ ScreenInit
    /\ TimelineIdle
    /\ HelpersIdle
    /\ AuthMounted

InitInsert ==
    /\ VITE_WORKERS_ENABLED \in EnvValues
    /\ FjIdle
    /\ ScreenInit
    /\ TimelineIdle
    /\ LabelsIdle
    /\ InsertCalled
    /\ AuthIdle

InitSla ==
    /\ VITE_WORKERS_ENABLED = "true"
    /\ FjIdle
    /\ ScreenInit
    /\ TimelineIdle
    /\ SlaInputs
    /\ AuthIdle

\* fetchJson alone
SpecHttp == Init /\ [][HttpNext]_vars

\* the screen with its load and its approve / reject handlers
SpecApprovals == Init /\ [][ApprovalsNext]_vars

\* the screen with its load and its upload modal and flows
SpecUpload == Init /\ [][UploadNext]_vars

\* the timeline functions applied to every bounded input
SpecTimeline == InitTimeline /\ [][TimelineNext]_vars

\* the mounted detail screen with decisions and uploads interleaved
SpecScreen == Init /\ [][ScreenNext]_vars

\* one call of insertClientDocument
SpecInsert == InitInsert /\ [][InsertNext]_vars

\* the provider, the gate and App
SpecAuth == InitAuth /\ [][AuthNext]_vars

\* the getSession promise of initSupabaseAuth settles
SpecAuthFair ==
    SpecAuth /\ WF_vars(InitGetSessionResolves \/ InitGetSessionFails)

\* getNextRequiredActionInfo applied to every bounded raw action
SpecAction == InitAction /\ [][GetNextRequiredActionInfo]_vars

\* computeSlaHint applied to every ETA and clock value of the model
SpecSla == InitSla /\ [][ComputeSlaHint]_vars


(***************************************************************************)
(* Claims about fetchJson                                                  *)
(***************************************************************************)

\* The caller-visible prefix of the error message: method, path and status.
CarriesMethodPathStatus(e) ==
    /\ Len(e.message) >= Len(fjPath) + 3
    /\ SubSeq(e.message, 1, Len(fjPath) + 3)
         = <<MethodOrGet(fjMethod)>> \o fjPath \o <<"failed:", ToString(fjStatus)>>

\* C1 (as stated): every call whose response has status 401 or 403, whatever the
\* path and method, invokes redirectToLogin exactly once and rejects.
C1_RedirectExactlyOnce ==
    (fjDone /\ fjStatus \in {401, 403}) => (fjRedirects = 1 /\ fjPc = "rejected")

\* C2 (as stated): a response with any other non-2xx status, whatever its body
\* text and path, rejects with an error carrying method, path and status and
\* never invokes redirectToLogin (the request was not aborted).
C2_NoRedirectOnOtherStatus ==
    (fjDone /\ fjStatus # 0 /\ ~ResOk(fjStatus) /\ fjStatus \notin {401, 403} /\ ~fjAborted)
        => (fjPc = "rejected" /\ CarriesMethodPathStatus(fjThrown) /\ fjRedirects = 0)

\* C3 (as stated): when the timeout fires before the call completed, the request is
\* aborted, redirectToLogin is invoked and the promise rejects; the timer is
\* cleared on every exit path.
C3_TimeoutRedirects ==
    /\ (fjDone /\ fjAborted) => (fjRedirects >= 1 /\ fjPc = "rejected")
    /\ fjDone => ~fjTimerArmed

\* C4: a fetchJson call issues at most one HTTP request, and a call that failed
\* (non-2xx, network error, abort) rejects with an error: it resolves only for a
\* 2xx response of its single request.
C4_SingleAttempt ==
    /\ fjRequests <= 1
    /\ fjPc = "resolved" => (fjRequests = 1 /\ ResOk(fjStatus) /\ ~fjAborted)
    /\ fjPc = "rejected" => fjThrown # NoError

\* C4 witness: a call failed on a 500 after its single request and rejected.
C4_Witness ==
    fjPc = "rejected" /\ fjStatus = 500 /\ fjRequests = 1 /\ fjThrown.isError

(***************************************************************************)
(* Claims about the CargoDetail screen                                     *)
(***************************************************************************)

DecisionsInFlightFor(a) ==
    { i \in 1..Len(decisions) : decisions[i].id = a /\ DecisionInFlight(i) }

\* C5 (as stated): while an approve or reject request for approval X is in
\* flight, X's buttons stay disabled, so no second request for X is started
\* before the first settles.
C5_OneDecisionInFlightPerApproval ==
    \A a \in ApprovalIds :
        /\ Cardinality(DecisionsInFlightFor(a)) <= 1
        /\ (mounted /\ DecisionsInFlightFor(a) # {}) => ~DecisionButtonsEnabled(a)
FlowsInFlight == { i \in 1..Len(flows) : FlowInFlight(i) }

\* C6 (as stated): while an upload flow is in flight, no second upload flow can be
\* started through the file picker or through drag-and-drop.
C6_OneUploadFlowInFlight == Cardinality(FlowsInFlight) <= 1

\* C7 (as stated): after the screen is unmounted every in-flight handler of a
\* request it started (load, approve, reject, upload / refresh) no-ops: it calls no
\* state setter and sends no further request.
C7_HandlersNoOpAfterUnmount == lateEffects = {}

IsPrefix(s, t) == Len(s) <= Len(t) /\ s = SubSeq(t, 1, Len(s))

\* C8: uploadClientDocumentFile sends the PUT only after the upload-URL request
\* succeeded and only to the signed_url it returned; it resolves, with the issued
\* storage path, only if the PUT answered 2xx; otherwise it rejects, and it sent no
\* PUT when the URL issuance failed.
C8_UploadHelper ==
    \A i \in 1..Len(flows) :
        LET f == flows[i] IN
        /\ f.putUrl # <<>> => (f.issued # <<>> /\ f.putUrl[1] = f.issued[1].signed_url)
        /\ f.helper = "resolved" =>
              (f.putUrl # <<>> /\ ResOk(f.putStatus) /\ f.helperPath = <<f.issued[1].path>>)
        /\ f.helper = "rejected" =>
              (f.putUrl = <<>> /\ f.issued = <<>>) \/ (f.putUrl # <<>> /\ ~ResOk(f.putStatus))
        /\ f.helper = "pending" <=> f.pc \in {"url", "put"}

\* C8 witness: one call of the helper resolved after a 2xx PUT and another one
\* rejected after a PUT that answered 500.
C8_Witness ==
    \E i, j \in 1..Len(flows) :
        /\ flows[i].helper = "resolved" /\ flows[i].putStatus = 200
        /\ flows[j].helper = "rejected" /\ flows[j].putStatus = 500

\* C9: in every upload flow URL issuance, PUT, registration and refresh happen in
\* this order, each only after the previous one succeeded; the registration
\* carries the issued storage path as drive_url, and every registered record
\* belongs to a file whose PUT succeeded.
C9_UploadPhasesInOrder ==
    /\ \A i \in 1..Len(flows) :
          LET f == flows[i] IN
          /\ IsPrefix(f.log, FullLog)
          /\ f.driveUrl # <<>> =>
                (f.helper = "resolved" /\ ResOk(f.putStatus)
                   /\ f.driveUrl = <<f.issued[1].path>>)
    /\ \A r \in bRecords :
          /\ r.flow \in 1..Len(flows)
          /\ r.drive_url \in bStored
          /\ flows[r.flow].driveUrl = <<r.drive_url>>
          /\ r.drive_url = flows[r.flow].issued[1].path
          /\ r.document_type = flows[r.flow].docType

\* C9 witness: a flow went through all phases and its record is registered, while
\* another flow's PUT failed and left no record.
C9_Witness ==
    \E i, j \in 1..Len(flows) :
        /\ flows[i].log = FullLog
        /\ \E r \in bRecords : r.flow = i
        /\ flows[j].pc = "failed" /\ flows[j].putStatus = 500
        /\ ~ \E r \in bRecords : r.flow = j

\* C10: when a step of an upload flow fails while the screen is mounted, the
\* modal is left as it is (uploadDocType unchanged), uploadError becomes the
\* error's message and isUploading is reset; a flow closes the modal only by its
\* successful end (the only other way is the user's Close button).
C10_FailureKeepsModalOpen ==
    [][ /\ \A i \in 1..Len(flows) :
              (mounted /\ FlowInFlight(i) /\ flows'[i].pc = "failed") =>
                  /\ uploadDocType' = uploadDocType
                  /\ uploadError' = flows'[i].error
                  /\ uploadError' # NULL
                  /\ isUploading' = NULL
        /\ (uploadDocType # NULL /\ uploadDocType' = NULL) =>
              \/ \E i \in 1..Len(flows) : flows[i].pc = "refresh" /\ flows'[i].pc = "done"
              \/ flows' = flows
      ]_vars

\* C10 witness: a flow failed at its refresh step, the modal is still open on its
\* document type with the error shown and the busy flag reset.
C10_Witness ==
    \E i \in 1..Len(flows) :
        /\ mounted
        /\ flows[i].pc = "failed"
        /\ flows[i].error = "getClientCargoDetail failed"
        /\ uploadDocType = flows[i].docType
        /\ uploadError = flows[i].error
        /\ isUploading = NULL

\* ---- C11 ----
\* C11: an approve or reject request is issued only for an approval whose status
\* in the current view state is PENDING (never for one shown as APPROVED,
\* REJECTED or EXPIRED), and a reject whose prompt was left empty or cancelled
\* issues no request and changes neither the view state nor the backend.
C11_RequestsOnlyForPending ==
    [][ (Len(decisions') = Len(decisions) + 1) =>
          LET d == decisions'[Len(decisions')] IN
          /\ (d.pc = "sent") =>
                \E r \in approvals : r.id = d.id /\ r.status = "PENDING"
          /\ (d.pc = "returned") =>
                /\ \A i \in 1..Len(decisions) : decisions'[i] = decisions[i]
                /\ UNCHANGED <<mounted, cancelled, viewVars, load, flows, backendVars,
                               lateEffects>>
      ]_vars

\* one approval is shown as decided, a reject of the other was sent, and a reject
\* prompt was left empty
C11_Witness ==
    /\ \E r \in approvals : r.status # "PENDING"
    /\ \E i \in 1..Len(decisions) : decisions[i].pc = "returned"
    /\ \E i \in 1..Len(decisions) : decisions[i].pc = "sent" /\ decisions[i].op = "reject"

\* ---- C12 ----
\* C12: in every reachable state of the detail screen, every document status and
\* every approval status shown is one that a backend response for this cargo
\* supplied: a document row is shown only out of a loaded detail, with the status
\* that detail carries for a required document of the cargo, and an approval row
\* carries PENDING or the status the backend holds for that approval.
C12_ShownStatusesFromBackend ==
    /\ \A d \in documents :
          /\ ~detail.isNull
          /\ d.type \in DocTypes
          /\ \E b \in detail.documents :
                b.document_type = d.type /\ mapDocStatus(b.status) = d.status
    /\ \A r \in approvals :
          r.id \in ApprovalIds /\ r.status \in {"PENDING", bApprovals[r.id]}

\* ---- C13 ----
Parses(ts) == ~DateParse(ts).nan
Ms(ts) == DateParse(ts).n

\* event a may stand before event b in a timeline ordered by event_time, then
\* recorded_at (timestamps that do not parse are not ordered)
EventMayPrecede(a, b) ==
    \/ ~Parses(a.event_time) \/ ~Parses(b.event_time)
    \/ Ms(a.event_time) < Ms(b.event_time)
    \/ /\ Ms(a.event_time) = Ms(b.event_time)
       /\ \/ ~Parses(a.recorded_at) \/ ~Parses(b.recorded_at)
          \/ Ms(a.recorded_at) <= Ms(b.recorded_at)

Bijections(n) ==
    { f \in [1..n -> 1..n] : \A i, j \in 1..n : i # j => f[i] # f[j] }

\* C13: when cargo detail is loaded, the derived timeline is shown only if the
\* backend returned zero events; with at least one event the timeline shown is
\* exactly the mapped backend events, one entry per event, ordered by event_time
\* then recorded_at.
C13_TimelineFromBackendEvents ==
    (tlPc = "rendered" /\ ~tlDetail.isNull) =>
        LET events == tlDetail.events
            n == Len(events)
        IN  /\ (tlBranch = "derived") => n = 0
            /\ (n >= 1) =>
                  /\ tlBranch = "mapped"
                  /\ Len(tlOut) = n
                  /\ \E f \in Bijections(n) :
                        /\ \A i \in 1..n : tlOut[i] = MapEvent(events[f[i]])
                        /\ \A i, j \in 1..n :
                              i < j => EventMayPrecede(events[f[i]], events[f[j]])

\* ---- C14 ----
LabelsOf(entries) == { entries[i].label : i \in 1..Len(entries) }
StatusesOf(entries) == { entries[i].status : i \in 1..Len(entries) }
DocsWithStatus(status) ==
    { i \in 1..Len(tlDetail.documents) : tlDetail.documents[i].status = status }

UploadTimestamps ==
    { tlDetail.documents[i].uploaded_at[1] :
        i \in { k \in DocsWithStatus("UPLOADED") :
                  /\ tlDetail.documents[k].uploaded_at # <<>>
                  /\ Parses(tlDetail.documents[k].uploaded_at[1]) } }
VerificationTimestamps ==
    { tlDetail.documents[i].verified_at[1] :
        i \in { k \in DocsWithStatus("VERIFIED") :
                  /\ tlDetail.documents[k].verified_at # <<>>
                  /\ Parses(tlDetail.documents[k].verified_at[1]) } }
Latest(S) == CHOOSE t \in S : \A u \in S : Ms(u) <= Ms(t)
Earliest(S) == CHOOSE t \in S : \A u \in S : Ms(t) <= Ms(u)

\* C15: whenever buildDerivedTimeline emits "Validation in progress", the entry
\* is incomplete, no "Documents verified" entry is present, and the entry carries
\* the latest upload timestamp among the UPLOADED documents (left open here when
\* no UPLOADED document has an upload timestamp that parses).
C15_ValidationAtLatestUpload ==
    (tlPc = "built") =>
        \A i \in 1..Len(tlEvents) :
            (tlEvents[i].label = "Validation in progress") =>
                /\ ~tlEvents[i].completed
                /\ "Documents verified" \notin LabelsOf(tlEvents)
                /\ (UploadTimestamps # {}) => tlEvents[i].at = Latest(UploadTimestamps)

\* ---- C16 ----
\* the output holds a completed entry with this label at this timestamp
OutputHolds(label, ts) ==
    \E i \in 1..Len(tlOut) :
        /\ tlOut[i].status = label
        /\ tlOut[i].completed
        /\ tlOut[i].date = formatIso(<<ts>>).date
        /\ tlOut[i].time = formatIso(<<ts>>).time

\* C16: for every document set with at least one VERIFIED document (with a
\* verification timestamp that parses), the output of buildDerivedTimeline holds
\* a completed "Documents verified" entry at the latest verification timestamp;
\* with no VERIFIED document there is no such entry.
C16_VerifiedAtLatestVerification ==
    (tlPc = "built") =>
        /\ (VerificationTimestamps # {}) =>
              OutputHolds("Documents verified", Latest(VerificationTimestamps))
        /\ (DocsWithStatus("VERIFIED") = {}) =>
              "Documents verified" \notin StatusesOf(tlOut)

\* ---- C17 ----
\* C17 as stated: for every cargo detail and approval list, the output of
\* buildDerivedTimeline holds a completed "Cargo created" entry at the cargo's
\* creation timestamp.
C17_CargoCreatedAlways ==
    (tlPc = "built") => OutputHolds("Cargo created", tlDetail.cargo.created_at)

\* C17, amended: the output of buildDerivedTimeline holds a completed "Cargo
\* created" entry at the cargo's creation timestamp exactly when that timestamp
\* parses; when it does not parse the output holds no "Cargo created" entry.
C17_CargoCreatedWhenParses ==
    (tlPc = "built") =>
        IF Parses(tlDetail.cargo.created_at)
        THEN /\ OutputHolds("Cargo created", tlDetail.cargo.created_at)
             /\ Cardinality({ i \in 1..Len(tlOut) : tlOut[i].status = "Cargo created" }) = 1
        ELSE "Cargo created" \notin StatusesOf(tlOut)

\* a cargo with documents and an approval whose creation entry is in the output
C17_Witness ==
    /\ tlPc = "built"
    /\ Parses(tlDetail.cargo.created_at)
    /\ Len(tlDetail.documents) > 0
    /\ Len(tlApprovals) > 0
    /\ OutputHolds("Cargo created", tlDetail.cargo.created_at)
    /\ Len(tlOut) >= 3

\* ---- C18 ----
\* C18: for every document set in which an uploaded document exists (status
\* UPLOADED, with an upload timestamp that parses), the output of
\* buildDerivedTimeline holds a completed "Documents uploaded" entry at the
\* earliest document upload timestamp; with no UPLOADED document that has an
\* upload timestamp it holds no such entry.
C18_UploadedAtEarliestUpload ==
    (tlPc = "built") =>
        /\ (UploadTimestamps # {}) =>
              OutputHolds("Documents uploaded", Earliest(UploadTimestamps))
        /\ (\A k \in DocsWithStatus("UPLOADED") : tlDetail.documents[k].uploaded_at = <<>>)
              => "Documents uploaded" \notin StatusesOf(tlOut)

\* ---- C19 ----
FixedLabels ==
    {"Cargo created", "Documents uploaded", "Validation in progress", "Documents verified"}
ApprovalLabel(a) == formatLabel(a.kind) \o " " \o formatLabel(a.status)

\* the timestamp of an approval's entry: decided_at if the approval carries one,
\* else created_at
ApprovalTimestamp(a) == IF a.decided_at # <<>> THEN a.decided_at[1] ELSE a.created_at

\* the positions of the synthesized entries, and of the entries of the output,
\* that stand for approvals
ApprovalEntryPositions == { i \in 1..Len(tlEvents) : tlEvents[i].label \notin FixedLabels }
ApprovalOutputPositions == { i \in 1..Len(tlOut) : tlOut[i].status \notin FixedLabels }

\* C19 as stated: the output of buildDerivedTimeline holds exactly one entry per
\* approval record.
C19_OneOutputEntryPerApproval ==
    (tlPc = "built") =>
        Cardinality(ApprovalOutputPositions) = Len(tlApprovals)

\* C19, amended: buildDerivedTimeline synthesizes exactly one entry per approval
\* record, after the cargo and document entries and in input order; its timestamp
\* is decided_at if the approval has one, else created_at, and it is marked
\* complete iff the approval's status is not PENDING. The output holds the entry
\* of exactly the approvals whose timestamp parses.
C19_OneEntryPerApproval ==
    (tlPc = "built") =>
        LET n == Len(tlApprovals)
            first == Len(tlEvents) - n
            kept == { k \in 1..n : Parses(ApprovalTimestamp(tlApprovals[k])) }
        IN  /\ first >= 1
            /\ ApprovalEntryPositions = (first + 1)..Len(tlEvents)
            /\ \A k \in 1..n :
                  /\ tlEvents[first + k].label = ApprovalLabel(tlApprovals[k])
                  /\ tlEvents[first + k].at = ApprovalTimestamp(tlApprovals[k])
                  /\ tlEvents[first + k].completed = (tlApprovals[k].status # "PENDING")
            /\ Cardinality(ApprovalOutputPositions) = Cardinality(kept)
            /\ \A k \in kept :
                  \E i \in 1..Len(tlOut) :
                      /\ tlOut[i].status = ApprovalLabel(tlApprovals[k])
                      /\ tlOut[i].completed = (tlApprovals[k].status # "PENDING")
                      /\ tlOut[i].date = formatIso(<<ApprovalTimestamp(tlApprovals[k])>>).date
                      /\ tlOut[i].time = formatIso(<<ApprovalTimestamp(tlApprovals[k])>>).time

\* a pending approval and one decided later than it was created, both in the output
C19_Witness ==
    /\ tlPc = "built"
    /\ Len(tlApprovals) = 2
    /\ \E k \in 1..2 : tlApprovals[k].status = "PENDING"
    /\ \E k \in 1..2 :
          /\ tlApprovals[k].decided_at # <<>>
          /\ Parses(tlApprovals[k].decided_at[1]) /\ Parses(tlApprovals[k].created_at)
          /\ Ms(tlApprovals[k].decided_at[1]) > Ms(tlApprovals[k].created_at)
    /\ Cardinality(ApprovalOutputPositions) = 2

\* ---- C20 ----
\* the rank of a label in the construction order
ConstructionRank(label) ==
    CASE label = "Cargo created" -> 1
      [] label = "Documents uploaded" -> 2
      [] label = "Validation in progress" -> 3
      [] label = "Documents verified" -> 4
      [] OTHER -> 5

\* C20: the output of buildDerivedTimeline holds exactly the synthesized entries
\* whose timestamp parses, in ascending timestamp order, and entries with equal
\* timestamps keep their construction order (Cargo created, Documents uploaded,
\* Validation in progress, Documents verified, then approvals in input order).
C20_ParsedEntriesSortedStably ==
    (tlPc = "built") =>
        LET kept == { k \in 1..Len(tlEvents) : Parses(tlEvents[k].at) }
            Before(j, k) ==
                \/ Ms(tlEvents[j].at) < Ms(tlEvents[k].at)
                \/ Ms(tlEvents[j].at) = Ms(tlEvents[k].at) /\ j < k
            Position(k) == 1 + Cardinality({ j \in kept : Before(j, k) })
        IN  /\ Len(tlOut) = Cardinality(kept)
            /\ \A k \in kept : tlOut[Position(k)] = MapEntry(tlEvents[k])
            /\ \A j, k \in 1..Len(tlEvents) :
                  j < k => ConstructionRank(tlEvents[j].label)
                              <= ConstructionRank(tlEvents[k].label)
            /\ \A j, k \in 1..Len(tlEvents) :
                  (j < k /\ ConstructionRank(tlEvents[j].label) < 5)
                      => tlEvents[j].label # tlEvents[k].label
            /\ \A k \in 1..Len(tlApprovals) :
                  tlEvents[Len(tlEvents) - Len(tlApprovals) + k].label
                      = ApprovalLabel(tlApprovals[k])

\* an entry was dropped, two entries of the output share a timestamp and two do not
C20_Witness ==
    /\ tlPc = "built"
    /\ Len(tlOut) < Len(tlEvents)
    /\ \E i, j \in 1..Len(tlOut) :
          i < j /\ tlOut[i].date = tlOut[j].date /\ tlOut[i].time = tlOut[j].time
    /\ \E i, j \in 1..Len(tlOut) : i < j /\ tlOut[i].date # tlOut[j].date

\* ---- C21 ----
\* C21: for every raw next-required-action value outside the known set,
\* getNextRequiredActionInfo strips exactly one leading CLIENT_ or OPS_ prefix
\* (never two), turns underscores into spaces, lower-cases, capitalizes the first
\* letter, and returns the raw value unchanged alongside the title.
C21_FallbackStripsOnePrefix ==
    (naPc = "returned" /\ naRaw \notin KnownActions) =>
        LET stripped == IF Len(naRaw) >= 2 /\ naRaw[1] \in {"CLIENT", "OPS"}
                        THEN Tail(naRaw) ELSE naRaw
        IN  /\ naInfo.raw = naRaw
            /\ Len(naInfo.title) = Len(stripped)
            /\ naInfo.title[1] = UpperFirst(toLowerCase(stripped[1]))
            /\ \A i \in 2..Len(stripped) : naInfo.title[i] = toLowerCase(stripped[i])

C23_DurationText ==
    (slaPc = "returned") =>
        IF slaEta = <<>> \/ slaEta[1].form # "iso"
        THEN slaHint = <<>>
        ELSE LET remaining == slaEta[1].ms - slaNow
                 distance == IF remaining < 0 THEN -remaining ELSE remaining
                 text == slaHint[1].label
             IN  /\ slaHint # <<>>
                 /\ text.suffix = IF remaining >= 0 THEN "remaining" ELSE "overdue"
                 /\ IF distance >= 2 * 86400000
                    THEN /\ text.unit = "days"
                         /\ text.amount * 86400000 <= distance
                         /\ distance < (text.amount + 1) * 86400000
                    ELSE /\ text.unit = "hours"
                         /\ 2 * text.amount * 3600000 - 3600000 <= 2 * distance
                         /\ 2 * distance < 2 * text.amount * 3600000 + 3600000

\* an overdue ETA 47.5 hours back: 48 hours overdue
C23_Witness ==
    /\ slaPc = "returned"
    /\ slaEta # <<>> /\ slaEta[1].form = "iso"
    /\ slaNow - slaEta[1].ms = 171000000
    /\ slaHint[1].label = [status |-> "On Track", amount |-> 48, unit |-> "hours",
                           suffix |-> "overdue"]

\* ---- C24 ----
\* C24: insertClientDocument sends exactly one POST to /client/documents whose
\* body keys are cargo_id, document_type and drive_url carrying the input's
\* cargoId, documentType and driveUrl; it rejects if the response is non-2xx or
\* the response JSON has no id, and resolves with the id only otherwise.
C24_Settled == icPc \in {"resolved", "rejected"}

C24_OnePostCarryingInput ==
    /\ Len(icSent) = 1
    /\ icSent[1].method = "POST"
    /\ icSent[1].path = "/client/documents"
    /\ icSent[1].body = [cargo_id |-> icInput.cargoId,
                         document_type |-> icInput.documentType,
                         drive_url |-> icInput.driveUrl]

C24_ResolvesOnlyWithId ==
    icPc = "resolved" =>
        /\ ResOk(icResult[1].status)
        /\ icResult[1].data.json = "object"
        /\ icResult[1].data.id \notin {<<>>, <<"">>}
        /\ icResult[1].value = [id |-> icResult[1].data.id]

\* the statement as it stands: every settled call sent its one POST
C24_AlwaysOnePost ==
    C24_Settled => (C24_OnePostCarryingInput /\ C24_ResolvesOnlyWithId)

\* amended: with the API enabled and the base URL set the call sends its one
\* POST; otherwise it rejects before sending anything
C24_OnePostWhenEnabled ==
    /\ icPc \in {"fetch", "resolved", "rejected"} =>
          IF workersEnabled /\ icBaseUrl # <<>>
          THEN C24_OnePostCarryingInput
          ELSE icPc = "rejected" /\ icSent = <<>>
    /\ C24_ResolvesOnlyWithId

\* a 2xx response whose JSON has an empty id: rejected after the one POST
C24_Witness ==
    /\ icPc = "rejected"
    /\ icResult[1].error = "insertClientDocument: missing id"
    /\ C24_OnePostCarryingInput

\* ---- C25 ----
\* the status the screen shows for approval a, <<>> when a is not listed
C25_Shown(list, a) == { r.status : r \in { q \in list : q.id = a } }

\* C25: once the screen shows approval X as APPROVED or REJECTED because an
\* approve/reject response for X was applied, no later-arriving response of a
\* request started earlier (the refresh of an upload flow, or the mount-time
\* load) sets X back to PENDING in the view state.
C25_DecidedNotRevertedToPending ==
    [][ \A a \in ApprovalIds :
           ( /\ \E i \in 1..Len(decisions) :
                    decisions[i].id = a /\ decisions[i].pc = "resolved"
             /\ C25_Shown(approvals, a) \subseteq {"APPROVED", "REJECTED"}
             /\ C25_Shown(approvals, a) # {} )
           => "PENDING" \notin C25_Shown(approvals', a) ]_vars

\* ---- C26 ----
\* C26: busy flags never stay stuck: on the mounted screen, whenever no
\* approve/reject request is in flight approvalsBusyId is null, and whenever no
\* upload flow is in flight isUploading is null, on success and on failure alike;
\* a failed approve/reject leaves the approvals list unchanged and sets
\* approvalsError.
C26_BusyFlagsReset ==
    /\ [](mounted =>
            /\ (\A i \in 1..Len(decisions) : ~DecisionInFlight(i)) => approvalsBusyId = NULL
            /\ (\A i \in 1..Len(flows) : ~FlowInFlight(i)) => isUploading = NULL)
    /\ [][ \A i \in 1..Len(decisions) :
              (mounted /\ decisions[i].pc = "sent" /\ decisions'[i].pc = "rejected") =>
                  /\ approvals' = approvals
                  /\ approvalsError' # NULL ]_vars

\* a decision failed and an upload flow failed; both flags are back to null
C26_Witness ==
    /\ mounted
    /\ \E i \in 1..Len(decisions) : decisions[i].pc = "rejected"
    /\ \E i \in 1..Len(flows) : flows[i].pc = "failed"
    /\ \A i \in 1..Len(decisions) : ~DecisionInFlight(i)
    /\ \A i \in 1..Len(flows) : ~FlowInFlight(i)
    /\ approvalsBusyId = NULL /\ isUploading = NULL
    /\ approvalsError # NULL

\* ---- C27 ----
C27_Failed == initOutcome \in {"config", "failed"}

\* C27: AuthProvider always becomes ready: for every outcome of initSupabaseAuth
\* the change callback runs at least once, so a mounted provider eventually has
\* ready = true, with authError set exactly in the failure outcomes and
\* authenticated = false there.
C27_ProviderBecomesReady ==
    /\ [](apMounted => <>(ready \/ ~apMounted))
    /\ [](initPc = "returned" => notifications # <<>>)
    /\ []((initOutcome = "config" /\ apMounted) =>
             (ready /\ authError # <<>> /\ ~authenticated))
    /\ [][ (~ready /\ ready') =>
              /\ (authError' # <<>>) <=> C27_Failed'
              /\ C27_Failed' => ~authenticated' ]_vars

\* getSession failed and the mounted provider is ready with the error
C27_Witness ==
    /\ apMounted /\ ready
    /\ initOutcome = "failed"
    /\ authError = <<"getSession failed">>
    /\ ~authenticated

\* ---- C28 ----
\* C28: whenever authenticated becomes false, App resets currentScreen to list
\* and selectedCargoId to null; in every reachable state currentScreen = detail
\* implies a cargo is selected, and neither list nor detail is rendered while
\* authenticated is false.
C28_ScreensFollowAuthentication ==
    /\ [](currentScreen = "detail" => selectedCargoId # <<>>)
    /\ [](~authenticated => AppView \notin {"list", "detail"})
    /\ []((apMounted /\ gatePc = "ready" /\ ~authenticated) =>
             (currentScreen = "list" /\ selectedCargoId = <<>>))
    /\ [][ (apMounted /\ gatePc = "ready" /\ authenticated /\ ~authenticated') =>
              (currentScreen' = "list" /\ selectedCargoId' = <<>>) ]_vars

\* the detail screen was shown (it started a request), then the user was signed
\* out: the screens are reset and nothing of App is rendered
C28_Witness ==
    /\ apMounted /\ gatePc = "ready" /\ ready /\ ~authenticated
    /\ \E i \in 1..Len(apiRequests) : apiRequests[i].view = "detail"
    /\ currentScreen = "list" /\ selectedCargoId = <<>>
    /\ AppView = "redirect"

\* ---- C29 ----
\* C29: if AuthProvider is unmounted at any point, including before the
\* initSupabaseAuth promise has resolved, the auth-state subscription is
\* eventually unsubscribed, and no auth callback changes provider state after
\* unmount.
C29_UnsubscribedAfterUnmount ==
    /\ [](~apMounted => <>[](sbListener # "subscribed"))
    /\ [][ ~apMounted => UNCHANGED <<ready, authenticated, authError>> ]_vars

\* ---- C30 ----
\* C30: after every auth change notification, getAccessToken() is non-null
\* exactly when the notification reported authenticated = true; hence every API
\* request started after a sign-out notification carries no authorization
\* header, and every request started while authenticated carries the bearer
\* token of the latest session.
C30_HeaderFollowsSession ==
    /\ \A i \in 1..Len(notifications) :
          (notifications[i].token # <<>>) <=> notifications[i].authenticated
    /\ \A i \in 1..Len(apiRequests) :
          LET r == apiRequests[i] IN
          /\ (r.notified # <<>> /\ ~r.notified[1].authenticated) => r.header = <<>>
          /\ r.authenticated =>
                (r.session # <<>> /\ r.header = <<"Bearer", r.session[1]>>)

====
